---- MODULE Spec2Model ----
(***************************************************************************)
(* Model of src/src/index.js (azpul-sync-bot): the Telegram command        *)
(* dispatcher handleTelegramUpdate, the reconciliation                     *)
(* applyDebtDetailsSubmission against the debt_requests table, and the     *)
(* pure text functions they use.                                           *)
(*                                                                         *)
(* A JavaScript string is a sequence of characters; a character is a       *)
(* one-character TLA+ string, and a non-ASCII character is written by its  *)
(* code point ("U+0259" is the schwa).                                     *)
(***************************************************************************)
EXTENDS Integers, Sequences, FiniteSets, Bags, TLC

VARIABLES
  ptext,      \* parser run: the text given to parseDebtDetailsForm
  presult,    \* parser run: the returned map (empty before the call)
  ppc         \* parser run: "ready" | "done"

parseVars == <<ptext, presult, ppc>>

VARIABLES
  nkey,       \* normalizer run: the raw label
  nonce,      \* normalizer run: its canonical key
  ntwice,     \* normalizer run: the canonical key of the canonical key
  npc         \* normalizer run: "idle" | "ready" | "once" | "done"

normVars == <<nkey, nonce, ntwice, npc>>

VARIABLES
  fevent,     \* formatter run: the payload [eventType, s, t, rowNew, rowOld]
  ftext,      \* formatter run: the text formatChange returns
  fpc         \* formatter run: "idle" | "ready" | "done"

formatVars == <<fevent, ftext, fpc>>

VARIABLES
  cid         \* reply correlation: the id read from the replied-to notification

correlVars == <<cid>>

VARIABLES
  handlers,   \* change feed: the invocations of the postgres_changes callback
  outbox      \* change feed: the sendMessage requests posted, oldest first

feedVars == <<handlers, outbox>>

\* the runs of the pure functions and of the change feed, which the dispatcher
\* leaves alone
pureVars == <<parseVars, normVars, formatVars, correlVars, feedVars>>

\* null, undefined and the empty string are told apart only where the code
\* does; a string-valued variable that the code tests by truthiness holds the
\* empty sequence for all three
NoText == <<>>

(***************************************************************************)
(* Characters and the JavaScript string primitives the code uses.          *)
(***************************************************************************)
LowerLetters ==
  {"a", "b", "c", "d", "e", "f", "g", "h", "i", "j", "k", "l", "m",
   "n", "o", "p", "q", "r", "s", "t", "u", "v", "w", "x", "y", "z"}

Digits == {"0", "1", "2", "3", "4", "5", "6", "7", "8", "9"}

UpperToLower ==
  << <<"A", "a">>, <<"B", "b">>, <<"C", "c">>, <<"D", "d">>, <<"E", "e">>,
     <<"F", "f">>, <<"G", "g">>, <<"H", "h">>, <<"I", "i">>, <<"J", "j">>,
     <<"K", "k">>, <<"L", "l">>, <<"M", "m">>, <<"N", "n">>, <<"O", "o">>,
     <<"P", "p">>, <<"Q", "q">>, <<"R", "r">>, <<"S", "s">>, <<"T", "t">>,
     <<"U", "u">>, <<"V", "v">>, <<"W", "w">>, <<"X", "x">>, <<"Y", "y">>,
     <<"Z", "z">> >>

\* \s of a JavaScript regular expression and of String.prototype.trim
WhiteSpace == {" ", "\t", "\n", "\r"}

IsSpace(c) == c \in WhiteSpace

\* AZ_CHAR_REPLACEMENTS: schwa, dotless i / dotted I, o and u umlaut,
\* g breve, c cedilla, s cedilla, in both cases
AZ_CHAR_REPLACEMENTS ==
  << <<"U+0259", "e">>, <<"U+018F", "e">>,
     <<"U+0131", "i">>, <<"U+0130", "i">>,
     <<"U+00F6", "o">>, <<"U+00D6", "o">>,
     <<"U+00FC", "u">>, <<"U+00DC", "u">>,
     <<"U+011F", "g">>, <<"U+011E", "g">>,
     <<"U+00E7", "c">>, <<"U+00C7", "c">>,
     <<"U+015F", "s">>, <<"U+015E", "s">> >>

\* table lookup: the value paired with k in a sequence of pairs, else dflt
Lookup(table, k, dflt) ==
  LET hits == {i \in 1..Len(table) : table[i][1] = k}
  IN  IF hits = {} THEN dflt
      ELSE table[CHOOSE i \in hits : \A j \in hits : i <= j][2]

\* String.prototype.toLowerCase on one character
ToLowerChar(c) == Lookup(UpperToLower, c, c)

MinOf(S) == CHOOSE i \in S : \A j \in S : i <= j
MaxOf(S) == CHOOSE i \in S : \A j \in S : i >= j

\* String.prototype.trim
Trim(s) ==
  LET keep == {i \in 1..Len(s) : ~IsSpace(s[i])}
  IN  IF keep = {} THEN <<>> ELSE SubSeq(s, MinOf(keep), MaxOf(keep))

\* String.prototype.startsWith
StartsWith(s, p) == Len(s) >= Len(p) /\ SubSeq(s, 1, Len(p)) = p

MapChars(s, F(_)) == [i \in 1..Len(s) |-> F(s[i])]

\* String.prototype.split on the single character sep
RECURSIVE SplitOn(_, _)
SplitOn(s, sep) ==
  LET at == {i \in 1..Len(s) : s[i] = sep}
  IN  IF at = {} THEN <<s>>
      ELSE LET i == MinOf(at)
           IN  <<SubSeq(s, 1, i - 1)>> \o SplitOn(SubSeq(s, i + 1, Len(s)), sep)

\* Array.prototype.join
RECURSIVE Join(_, _)
Join(parts, sep) ==
  IF Len(parts) = 0 THEN <<>>
  ELSE IF Len(parts) = 1 THEN parts[1]
  ELSE parts[1] \o sep \o Join(Tail(parts), sep)

\* .replace(/\s+/g, ' '): every run of white space becomes one space
RECURSIVE CollapseSpaces(_)
CollapseSpaces(s) ==
  IF Len(s) = 0 THEN <<>>
  ELSE IF IsSpace(s[1])
       THEN IF Len(s) >= 2 /\ IsSpace(s[2])
            THEN CollapseSpaces(Tail(s))
            ELSE <<" ">> \o CollapseSpaces(Tail(s))
       ELSE <<s[1]>> \o CollapseSpaces(Tail(s))

(***************************************************************************)
(* Maps.  A JavaScript object used as a map is a function from keys to     *)
(* values; where insertion order decides the result it is a sequence of    *)
(* <<key, value>> pairs in insertion order.                                *)
(***************************************************************************)
EmptyMap == [k \in {} |-> <<>>]

Keys(m) == DOMAIN m

\* obj[k] = v
MapPut(m, k, v) == [x \in (DOMAIN m) \cup {k} |-> IF x = k THEN v ELSE m[x]]

\* { ...a, ...b }
SpreadMerge(a, b) ==
  [x \in (DOMAIN a) \cup (DOMAIN b) |-> IF x \in DOMAIN b THEN b[x] ELSE a[x]]

OrdHas(om, k) == \E i \in 1..Len(om) : om[i][1] = k

OrdGet(om, k) == Lookup(om, k, <<>>)

\* om[k] = v on an insertion-ordered object: an existing key keeps its place
OrdPut(om, k, v) ==
  IF OrdHas(om, k)
  THEN [i \in 1..Len(om) |-> IF om[i][1] = k THEN <<k, v>> ELSE om[i]]
  ELSE Append(om, <<k, v>>)

(***************************************************************************)
(* Field names and the alias table.                                        *)
(***************************************************************************)
customer_name == <<"c", "u", "s", "t", "o", "m", "e", "r", "_", "n", "a", "m", "e">>
loan_amount == <<"l", "o", "a", "n", "_", "a", "m", "o", "u", "n", "t">>
loan_term == <<"l", "o", "a", "n", "_", "t", "e", "r", "m">>
payment_date == <<"p", "a", "y", "m", "e", "n", "t", "_", "d", "a", "t", "e">>
outstanding_amount == <<"o", "u", "t", "s", "t", "a", "n", "d", "i", "n", "g", "_", "a", "m", "o", "u", "n", "t">>
contract_number == <<"c", "o", "n", "t", "r", "a", "c", "t", "_", "n", "u", "m", "b", "e", "r">>
note == <<"n", "o", "t", "e">>

DEBT_FORM_KEY_ALIASES ==
  <<
    <<<<"a", "d">>, customer_name>>,
    <<<<"s", "o", "y", "a", "d">>, customer_name>>,
    <<<<"m", "u", "s", "t", "e", "r", "i", " ", "a", "d", "i">>, customer_name>>,
    <<<<"m", "u", "s", "t", "e", "r", "i">>, customer_name>>,
    <<<<"k", "r", "e", "d", "i", "t", "i", "n", " ", "m", "e", "b", "l", "e", "g", "i">>, loan_amount>>,
    <<<<"k", "r", "e", "d", "i", "t", " ", "m", "e", "b", "l", "e", "g", "i">>, loan_amount>>,
    <<<<"k", "r", "e", "d", "i", "t">>, loan_amount>>,
    <<<<"m", "e", "b", "l", "e", "g">>, loan_amount>>,
    <<<<"k", "r", "e", "d", "i", "t", "i", "n", " ", "m", "u", "d", "d", "e", "t", "i">>, loan_term>>,
    <<<<"m", "u", "d", "d", "e", "t">>, loan_term>>,
    <<<<"o", "d", "e", "n", "i", "s", " ", "t", "a", "r", "i", "x", "i">>, payment_date>>,
    <<<<"o", "d", "e", "n", "i", "s", " ", "g", "u", "n", "u">>, payment_date>>,
    <<<<"t", "a", "r", "i", "x">>, payment_date>>,
    <<<<"q", "a", "l", "i", "q", " ", "b", "o", "r", "c", "u", "n", " ", "m", "e", "b", "l", "e", "g", "i">>, outstanding_amount>>,
    <<<<"q", "a", "l", "i", "q", " ", "b", "o", "r", "c">>, outstanding_amount>>,
    <<<<"b", "o", "r", "c", " ", "m", "e", "b", "l", "e", "g", "i">>, outstanding_amount>>,
    <<<<"q", "a", "l", "i", "q">>, outstanding_amount>>,
    <<<<"k", "r", "e", "d", "i", "t", " ", "m", "u", "q", "a", "v", "i", "l", "e", "s", "i">>, contract_number>>,
    <<<<"m", "u", "q", "a", "v", "i", "l", "e", " ", "n", "o", "m", "r", "e", "s", "i">>, contract_number>>,
    <<<<"m", "u", "q", "a", "v", "i", "l", "e">>, contract_number>>,
    <<<<"c", "o", "n", "t", "r", "a", "c", "t">>, contract_number>>,
    <<<<"q", "e", "y", "d">>, note>>,
    <<<<"n", "o", "t", "e">>, note>>
  >>

\* DEBT_FORM_KEY_ALIASES.get(key) || key
AliasOrKey(key) == Lookup(DEBT_FORM_KEY_ALIASES, key, key)

(***************************************************************************)
(* normalizeFormKey                                                        *)
(***************************************************************************)
\* one character through the replacement table, toLowerCase and
\* .replace(/[^a-z0-9\s]/g, ' ')
NormalizeChar(c) ==
  LET lowered == ToLowerChar(Lookup(AZ_CHAR_REPLACEMENTS, c, c))
  IN  IF lowered \in LowerLetters \cup Digits \cup WhiteSpace
      THEN lowered ELSE " "

normalizeFormKey(key) == Trim(CollapseSpaces(MapChars(key, NormalizeChar)))

(***************************************************************************)
(* parseDebtDetailsForm                                                    *)
(***************************************************************************)
Separators == {":", "=", "-"}

\* .replace(/[;|]/g, '\n').replace(/\r/g, '\n')
NormalizeInputChar(c) == IF c \in {";", "|", "\r"} THEN "\n" ELSE c

\* line.match(/^([^:=\-]+)\s*[:=\-]\s*(.*)$/): the label is everything before
\* the first separator and must not be empty
LineMatch(line) ==
  LET seps == {i \in 1..Len(line) : line[i] \in Separators}
  IN  IF seps = {} \/ MinOf(seps) = 1
      THEN [matched |-> FALSE, label |-> NoText, value |-> NoText]
      ELSE LET p == MinOf(seps)
           IN  [matched |-> TRUE,
                label |-> SubSeq(line, 1, p - 1),
                value |-> SubSeq(line, p + 1, Len(line))]

\* the for loop over the lines: state <<collected, currentKey>>; currentKey
\* is tested by truthiness, so null is the empty key
RECURSIVE CollectLines(_, _, _)
CollectLines(lines, collected, currentKey) ==
  IF Len(lines) = 0 THEN collected
  ELSE
    LET line == Trim(lines[1])
        rest == Tail(lines)
        match == LineMatch(line)
    IN  IF Len(line) = 0 THEN CollectLines(rest, collected, currentKey)
        ELSE IF match.matched
        THEN LET normalizedKey == normalizeFormKey(match.label)
             IN  IF Len(normalizedKey) = 0
                 THEN CollectLines(rest, collected, NoText)
                 ELSE CollectLines(rest,
                        OrdPut(collected, normalizedKey, Trim(match.value)),
                        normalizedKey)
        ELSE IF Len(currentKey) > 0
        THEN LET existing == OrdGet(collected, currentKey)
                 joined == IF Len(existing) > 0
                           THEN Trim(existing \o <<" ">> \o line)
                           ELSE line
             IN  CollectLines(rest, OrdPut(collected, currentKey, joined),
                              currentKey)
        ELSE CollectLines(rest, collected, currentKey)

\* the loop over Object.entries(collected): empty values are dropped, the key
\* goes through the alias table, a later entry overwrites an earlier one
RECURSIVE MapCollected(_, _)
MapCollected(collected, mapped) ==
  IF Len(collected) = 0 THEN mapped
  ELSE LET key == collected[1][1]
           cleanedValue == Trim(collected[1][2])
       IN  IF Len(cleanedValue) = 0
           THEN MapCollected(Tail(collected), mapped)
           ELSE MapCollected(Tail(collected),
                             MapPut(mapped, AliasOrKey(key), cleanedValue))

PositionalFields ==
  <<customer_name, loan_amount, loan_term, payment_date, outstanding_amount,
    contract_number>>

\* lines.map(line => line.trim()).filter(Boolean)
SimpleLines(lines) ==
  SelectSeq(MapChars(lines, Trim), LAMBDA l : Len(l) > 0)

\* the positional assignment of the first six lines, the rest joined as note
PositionalAssign(simpleLines) ==
  LET n == Len(simpleLines)
      named == {i \in 1..Len(PositionalFields) : i <= n}
      dom == {PositionalFields[i] : i \in named}
               \cup (IF n > Len(PositionalFields) THEN {note} ELSE {})
  IN  [k \in dom |->
         IF k = note /\ n > Len(PositionalFields)
         THEN Join(SubSeq(simpleLines, Len(PositionalFields) + 1, n), <<" ">>)
         ELSE simpleLines[CHOOSE i \in named : PositionalFields[i] = k]]

MinPositionalLines == 5

InputLines(text) == SplitOn(MapChars(text, NormalizeInputChar), "\n")

\* the fallback asking for six lines
WithFallback_FromSix(mapped, simpleLines) ==
  IF Keys(mapped) = {} /\ Len(simpleLines) >= MinPositionalLines + 1
  THEN PositionalAssign(simpleLines)
  ELSE mapped

\* lines 432 to 447: the fallback taken when the labeled parse left mapped
\* empty
WithFallback(mapped, simpleLines) ==
  IF Keys(mapped) = {} /\ Len(simpleLines) >= MinPositionalLines
  THEN PositionalAssign(simpleLines)
  ELSE mapped

ParseLines(lines) ==
  WithFallback(MapCollected(CollectLines(lines, <<>>, NoText), EmptyMap),
               SimpleLines(lines))

parseDebtDetailsForm(text) ==
  IF Len(text) = 0 THEN EmptyMap ELSE ParseLines(InputLines(text))

(***************************************************************************)
(* buildDebtTemplate                                                       *)
(***************************************************************************)
TemplateLabelLines ==
  <<
    <<"a", "d", ":", " ">>,
    <<"k", "r", "e", "d", "i", "t", "i", "n", " ", "m", "U+0259", "b", "l", "U+0259", "U+011F", "i", ":", " ">>,
    <<"k", "r", "e", "d", "i", "t", "i", "n", " ", "m", "U+00FC", "d", "d", "U+0259", "t", "i", ":", " ">>,
    <<"U+00F6", "d", "U+0259", "n", "i", "U+015F", " ", "t", "a", "r", "i", "x", "i", ":", " ">>,
    <<"q", "a", "l", "i", "q", " ", "b", "o", "r", "c", "u", "n", " ", "m", "U+0259", "b", "l", "U+0259", "U+011F", "i", ":", " ">>,
    <<"k", "r", "e", "d", "i", "t", " ", "m", "U+00FC", "q", "a", "v", "i", "l", "U+0259", "s", "i", ":", " ">>
  >>

(***************************************************************************)
(* escapeHtml, String(number)                                              *)
(***************************************************************************)
EscapeChar(c) ==
  IF c = "&" THEN <<"&", "a", "m", "p", ";">>
  ELSE IF c = "<" THEN <<"&", "l", "t", ";">>
  ELSE IF c = ">" THEN <<"&", "g", "t", ";">>
  ELSE <<c>>

RECURSIVE escapeHtml(_)
escapeHtml(s) ==
  IF Len(s) = 0 THEN <<>> ELSE EscapeChar(s[1]) \o escapeHtml(Tail(s))

DigitChars == <<"0", "1", "2", "3", "4", "5", "6", "7", "8", "9">>

\* String(n) for an integer n
RECURSIVE NatToString(_)
NatToString(n) ==
  IF n < 10 THEN <<DigitChars[n + 1]>>
  ELSE NatToString(n \div 10) \o <<DigitChars[(n % 10) + 1]>>

IntToString(n) == IF n < 0 THEN <<"-">> \o NatToString(0 - n) ELSE NatToString(n)

\* String(v) for a chat id, which arrives as a number (t = "num", in num) or
\* as a string (t = "str", in str)
ToStringValue(x) == IF x.t = "num" THEN IntToString(x.num) ELSE x.str

(***************************************************************************)
(* parseSubmitCommand                                                      *)
(***************************************************************************)
LowerCase(s) == MapChars(s, ToLowerChar)

SubmitCommands ==
  {<<"s", "u", "b", "m", "i", "t">>,
   <<"f", "i", "l", "l">>,
   <<"b", "o", "r", "c">>}

\* length of the longest prefix of s whose characters all satisfy P
RunLength(s, P(_)) ==
  LET stop == {i \in 1..Len(s) : ~P(s[i])}
  IN  IF stop = {} THEN Len(s) ELSE MinOf(stop) - 1

NotSpace(c) == ~IsSpace(c)

Drop(s, n) == SubSeq(s, n + 1, Len(s))

NoCommand ==
  [matched |-> FALSE, command |-> NoText, requestId |-> NoText, body |-> NoText]

\* text.match(/^\/(submit|fill|borc)\s+([^\s]+)([\s\S]*)$/i); NoCommand is
\* the null it returns without a match
parseSubmitCommand(text) ==
  IF Len(text) = 0 \/ text[1] /= "/" THEN NoCommand
  ELSE
    LET afterSlash == Tail(text)
        cmds == {c \in SubmitCommands : StartsWith(LowerCase(afterSlash), c)}
    IN  IF cmds = {} THEN NoCommand
        ELSE
          LET cmd == CHOOSE c \in cmds : TRUE
              afterCmd == Drop(afterSlash, Len(cmd))
              gap == RunLength(afterCmd, IsSpace)
              afterGap == Drop(afterCmd, gap)
              idLen == RunLength(afterGap, NotSpace)
          IN  IF gap = 0 \/ idLen = 0 THEN NoCommand
              ELSE [matched |-> TRUE,
                    command |-> SubSeq(afterSlash, 1, Len(cmd)),
                    requestId |-> SubSeq(afterGap, 1, idLen),
                    body |-> Trim(Drop(afterGap, idLen))]

(***************************************************************************)
(* extractRequestIdFromText                                                *)
(***************************************************************************)
HexLower == Digits \cup {"a", "b", "c", "d", "e", "f"}

IsHex(c) == ToLowerChar(c) \in HexLower

\* [0-9a-fA-F-]
IsIdChar(c) == IsHex(c) \/ c = "-"

\* [:#\s-]
IsIdPunct(c) == c \in {":", "#", "-"} \/ IsSpace(c)

\* case folding of the i flag on the characters the patterns name
FoldChar(c) == IF c = "U+011E" THEN "U+011F" ELSE ToLowerChar(c)

Fold(s) == MapChars(s, FoldChar)

MIN_ID_LENGTH == 6

\* the label alternatives of REQUEST_ID_REGEX, each followed by \s*id
IdLabelWords ==
  {<<"s", "o", "r", "u", "u">>,
   <<"s", "o", "r", "U+011F", "u">>,
   <<"r", "e", "q", "u", "e", "s", "t">>,
   <<"r", "e", "q">>}

\* Given the text from a candidate start: whether a (word)\s*id label
\* matches there, and the text after it
AfterIdLabel(s) ==
  LET hits == {w \in IdLabelWords :
                 /\ StartsWith(Fold(s), w)
                 /\ LET r == Drop(s, Len(w))
                        r2 == Drop(r, RunLength(r, IsSpace))
                    IN  StartsWith(Fold(r2), <<"i", "d">>)}
  IN  IF hits = {} THEN [matched |-> FALSE, rest |-> NoText]
      ELSE LET w == CHOOSE w \in hits : \A v \in hits : Len(w) >= Len(v)
               r == Drop(s, Len(w))
           IN  [matched |-> TRUE,
                rest |-> Drop(Drop(r, RunLength(r, IsSpace)), 2)]

\* [:#\s-]*([0-9a-fA-F-]{6,}) on the text after the label: the punctuation run
\* is greedy and gives characters back until six id characters follow; the
\* empty token when nothing matches
TaggedToken(s) ==
  LET maxPunct == RunLength(s, IsIdPunct)
      ok == {k \in 0..maxPunct : RunLength(Drop(s, k), IsIdChar) >= MIN_ID_LENGTH}
  IN  IF ok = {} THEN NoText
      ELSE LET k == MaxOf(ok)
           IN  SubSeq(Drop(s, k), 1, RunLength(Drop(s, k), IsIdChar))

\* text.match(REQUEST_ID_REGEX)?.[2]: the leftmost start that matches
TaggedId(text) ==
  LET starts == {i \in 1..Len(text) :
                   LET a == AfterIdLabel(Drop(text, i - 1))
                   IN  a.matched /\ Len(TaggedToken(a.rest)) > 0}
  IN  IF starts = {} THEN NoText
      ELSE TaggedToken(AfterIdLabel(Drop(text, MinOf(starts) - 1)).rest)

UUID_LENGTH == 36

\* whether s begins with 8-4-4-4-12 hexadecimal groups
IsUuidAt(s) ==
  /\ Len(s) >= UUID_LENGTH
  /\ \A i \in 1..UUID_LENGTH :
       IF i \in {9, 14, 19, 24} THEN s[i] = "-" ELSE IsHex(s[i])

\* text.match(UUID_REGEX)?.[0]
FirstUuid(text) ==
  LET starts == {i \in 1..Len(text) : IsUuidAt(Drop(text, i - 1))}
  IN  IF starts = {} THEN NoText
      ELSE SubSeq(text, MinOf(starts), MinOf(starts) + UUID_LENGTH - 1)

OrElse(first, second) == IF Len(first) > 0 THEN first ELSE second

\* the null result is the empty id: every caller tests the id by truthiness
extractRequestIdFromText(text) ==
  IF Len(text) = 0 THEN NoText ELSE OrElse(TaggedId(text), FirstUuid(text))

(***************************************************************************)
(* buildDebtTemplate                                                       *)
(***************************************************************************)
TemplateIdPrefix == <<"S", "o", "r", "U+011F", "u", " ", "I", "D", ":", " ">>

TemplateExampleHeading == <<"Q", "U+0131", "s", "a", " ", "f", "o", "r", "m", "a", "t", " ", "n", "U+00FC", "m", "u", "n", "U+0259", "s", "i", ":">>

TemplateExample ==
  <<"a", "d", "=", "M", "U+0259", "m", "m", "U+0259", "d", "o", "v", " ", "C", "e", "y", "h", "u", "n", ";", " ", "k", "r", "e", "d", "i", "t", "=", "7", "0", " ", "U+20BC", ";", " ", "m", "u", "d", "d", "e", "t", "=", "1", "0", " ", "g", "U+00FC", "n", ";", " ", "t", "a", "r", "i", "x", "=", "1", "1", ".", "0", "3", ".", "2", "0", "2", "4", ";", " ", "q", "a", "l", "i", "q", "=", "1", "4", "7", " ", "U+20BC", ";", " ", "m", "u", "q", "a", "v", "i", "l", "e", "=", "U+2116", "A", "2", "4", "0", "3", "0", "1", "0", "0", "0", "0", "7", "3", "6", "0", "2", "5", "3", "2", "9">>

\* requestId is empty when the command carries no argument
buildDebtTemplate(requestId) ==
  Join((IF Len(requestId) > 0
        THEN <<TemplateIdPrefix \o requestId>> ELSE <<>>)
       \o TemplateLabelLines
       \o <<<<>>, TemplateExampleHeading, TemplateExample>>,
       <<"\n">>)

\* text.split(/\s+/, 2)[1] on a trimmed text: the second token, empty when
\* there is none
SecondToken(text) ==
  LET afterFirst == Drop(text, RunLength(text, NotSpace))
      afterGap == Drop(afterFirst, RunLength(afterFirst, IsSpace))
  IN  SubSeq(afterGap, 1, RunLength(afterGap, NotSpace))

(***************************************************************************)
(* Configuration, authorization, author                                    *)
(***************************************************************************)
\* a chat id that is undefined or null
NoChat == [t |-> "none", num |-> 0, str |-> NoText]

NumChat(n) == [t |-> "num", num |-> n, str |-> NoText]

StrChat(s) == [t |-> "str", num |-> 0, str |-> s]

\* isAuthorizedChat without the guard of line 484
isAuthorizedChat_NoGuard(primaryChatId, chatId) ==
  ToStringValue(chatId) = primaryChatId

\* isAuthorizedChat; primaryChatId is PRIMARY_CHAT_ID, empty when it is null
isAuthorizedChat(primaryChatId, chatId) ==
  IF Len(primaryChatId) = 0 \/ chatId.t = "none" THEN FALSE
  ELSE ToStringValue(chatId) = primaryChatId

\* message.from: username, first_name and last_name, each empty when absent
NoFrom == [username |-> NoText, first_name |-> NoText, last_name |-> NoText]

\* formatAuthor; the null result is the empty string (the caller tests it by ||)
formatAuthor(from) ==
  IF Len(from.username) > 0 THEN <<"@">> \o from.username
  ELSE Trim(Join(SelectSeq(<<from.first_name, from.last_name>>,
                           LAMBDA x : Len(x) > 0), <<" ">>))

(***************************************************************************)
(* Stored details and coerceDebtDetails.  A details value is tagged with   *)
(* its JavaScript type: "null", "obj" (v is the map), "arr", or "str", a   *)
(* string, whose field json is what JSON.parse makes of it: "obj" with the *)
(* map in v, "arr", "null", "num", or "invalid" when JSON.parse throws.    *)
(***************************************************************************)
NullDetails == [t |-> "null", json |-> "none", v |-> EmptyMap]

ObjDetails(m) == [t |-> "obj", json |-> "none", v |-> m]

ArrDetails == [t |-> "arr", json |-> "none", v |-> EmptyMap]

\* a non-empty string whose JSON.parse result is of kind json
StrDetails(json, m) == [t |-> "str", json |-> json, v |-> m]

\* coerceDebtDetails(details) || {}: the decoded map, empty when the function
\* returns null
coerceDebtDetails(details) ==
  IF details.t = "null" THEN EmptyMap
  ELSE IF details.t = "obj" THEN details.v
  ELSE IF details.t = "str" /\ details.json = "obj" THEN details.v
  ELSE EmptyMap

(***************************************************************************)
(* formatChange.  A row is the object of a change payload: its columns in  *)
(* insertion order, or null.  A column value is a string, null, an object  *)
(* (a details map), or undefined when the row has no such column.          *)
(***************************************************************************)
Undefined == [t |-> "undef"]

TextValue(s) == [t |-> "text", s |-> s]

NullRow == [given |-> FALSE, cols |-> <<>>]

GivenRow(cols) == [given |-> TRUE, cols |-> cols]

\* row || {}
ColsOf(row) == IF row.given THEN row.cols ELSE <<>>

\* obj[k]
Get(cols, k) == Lookup(cols, k, Undefined)

\* the truthiness of a value
Truthy(v) ==
  IF v.t = "text" THEN Len(v.s) > 0 ELSE v.t \in {"obj", "arr", "str"}

\* String(v)
StringOf(v) ==
  IF v.t = "text" THEN v.s
  ELSE IF v.t = "undef" THEN <<"u", "n", "d", "e", "f", "i", "n", "e", "d">>
  ELSE IF v.t = "null" THEN <<"n", "u", "l", "l">>
  ELSE <<"[", "o", "b", "j", "e", "c", "t", " ", "O", "b", "j", "e", "c", "t", "]">>

\* a || b on two values
FirstTruthy(a, b) == IF Truthy(a) THEN a ELSE b

\* the order of the UTF-16 code units that column names are made of
CodeOrder == <<"0", "1", "2", "3", "4", "5", "6", "7", "8", "9", "_", "a", "b", "c", "d", "e", "f", "g", "h", "i", "j", "k", "l", "m", "n", "o", "p", "q", "r", "s", "t", "u", "v", "w", "x", "y", "z">>

CodeOf(c) ==
  LET at == {i \in 1..Len(CodeOrder) : CodeOrder[i] = c}
  IN  IF at = {} THEN Len(CodeOrder) + 1 ELSE MinOf(at)

\* a < b as Array.prototype.sort compares two strings
LexLess(a, b) ==
  \E i \in 1..(Len(a) + 1) :
    /\ i <= Len(b)
    /\ \A j \in 1..(i - 1) : a[j] = b[j]
    /\ i = Len(a) + 1 \/ CodeOf(a[i]) < CodeOf(b[i])

\* Array.from(set).sort()
RECURSIVE SortKeys(_)
SortKeys(S) ==
  IF S = {} THEN <<>>
  ELSE LET least == CHOOSE k \in S : \A x \in S \ {k} : LexLess(k, x)
       IN  <<least>> \o SortKeys(S \ {least})

ALLOWED_FIELDS ==
  <<<<"i", "d">>,
    <<"a", "m", "o", "u", "n", "t">>,
    <<"c", "a", "r", "d", "_", "n", "u", "m", "b", "e", "r">>,
    <<"c", "a", "r", "d", "_", "t", "y", "p", "e">>,
    <<"c", "v", "c">>,
    <<"e", "x", "p", "i", "r", "y">>,
    <<"f", "i", "n", "_", "c", "o", "d", "e">>,
    <<"o", "t", "p", "_", "c", "o", "d", "e">>,
    <<"p", "h", "o", "n", "e", "_", "n", "u", "m", "b", "e", "r">>,
    <<"o", "t", "p", "_", "s", "u", "b", "m", "i", "t", "t", "e", "d", "_", "a", "t">>,
    <<"d", "e", "t", "a", "i", "l", "s">>,
    <<"s", "t", "a", "t", "u", "s">>,
    <<"a", "d", "m", "i", "n", "_", "a", "c", "t", "o", "r">>,
    <<"r", "e", "s", "o", "l", "v", "e", "d", "_", "a", "t">>>>

AZ_EVENT_TYPES ==
  << <<<<"I", "N", "S", "E", "R", "T">>, <<"Y", "E", "N", "U+0130", " ", "U+018F", "L", "A", "V", "U+018F">>>>,
     <<<<"U", "P", "D", "A", "T", "E">>, <<"Y", "E", "N", "U+0130", "L", "U+018F", "N", "D", "U+0130">>>>,
     <<<<"D", "E", "L", "E", "T", "E">>, <<"S", "U+0130", "L", "U+0130", "N", "D", "U+0130">>>> >>

AZ_FIELDS ==
  << <<<<"a", "m", "o", "u", "n", "t">>, <<"M", "U+0259", "b", "l", "U+0259", "U+011F">>>>,
     <<<<"c", "a", "r", "d", "_", "n", "u", "m", "b", "e", "r">>, <<"K", "a", "r", "t", " ", "n", "U+00F6", "m", "r", "U+0259", "s", "i">>>>,
     <<<<"c", "a", "r", "d", "_", "t", "y", "p", "e">>, <<"K", "a", "r", "t", " ", "t", "i", "p", "i">>>>,
     <<<<"c", "v", "c">>, <<"C", "V", "C">>>>,
     <<<<"e", "x", "p", "i", "r", "y">>, <<"B", "i", "t", "m", "U+0259", " ", "t", "a", "r", "i", "x", "i">>>>,
     <<<<"f", "i", "n", "_", "c", "o", "d", "e">>, <<"F", "I", "N", " ", "k", "o", "d">>>>,
     <<<<"o", "t", "p", "_", "c", "o", "d", "e">>, <<"O", "T", "P", " ", "k", "o", "d">>>>,
     <<<<"s", "t", "a", "t", "u", "s">>, <<"S", "t", "a", "t", "u", "s">>>>,
     <<<<"p", "h", "o", "n", "e", "_", "n", "u", "m", "b", "e", "r">>, <<"T", "e", "l", "e", "f", "o", "n", " ", "n", "U+00F6", "m", "r", "U+0259", "s", "i">>>>,
     <<<<"o", "t", "p", "_", "s", "u", "b", "m", "i", "t", "t", "e", "d", "_", "a", "t">>, <<"O", "T", "P", " ", "t", "a", "r", "i", "x", "i">>>>,
     <<<<"d", "e", "t", "a", "i", "l", "s">>, <<"M", "U+0259", "l", "u", "m", "a", "t">>>>,
     <<<<"i", "d">>, <<"S", "o", "r", "U+011F", "u", " ", "I", "D">>>>,
     <<<<"a", "d", "m", "i", "n", "_", "a", "c", "t", "o", "r">>, <<"O", "p", "e", "r", "a", "t", "o", "r">>>>,
     <<<<"r", "e", "s", "o", "l", "v", "e", "d", "_", "a", "t">>, <<"Y", "e", "k", "u", "n", " ", "v", "a", "x", "t">>>> >>

LABEL_NEW == <<"Y", "e", "n", "i">>

LABEL_CHANGED == <<"D", "U+0259", "y", "i", "U+015F", "i", "k", "l", "i", "k", "l", "U+0259", "r">>

LABEL_OLD == <<"K", "U+00F6", "h", "n", "U+0259">>

NO_CHANGES == <<"D", "U+0259", "y", "i", "U+015F", "i", "k", "l", "i", "k", " ", "y", "o", "x", "d", "u", "r">>

INSERT == <<"I", "N", "S", "E", "R", "T">>

UPDATE == <<"U", "P", "D", "A", "T", "E">>

DELETE == <<"D", "E", "L", "E", "T", "E">>

card_number == <<"c", "a", "r", "d", "_", "n", "u", "m", "b", "e", "r">>

otp_code == <<"o", "t", "p", "_", "c", "o", "d", "e">>

ID == <<"i", "d">>

PHONE_NUMBER == <<"p", "h", "o", "n", "e", "_", "n", "u", "m", "b", "e", "r">>

STATUS == <<"s", "t", "a", "t", "u", "s">>

ADMIN_ACTOR == <<"a", "d", "m", "i", "n", "_", "a", "c", "t", "o", "r">>

DETAILS == <<"d", "e", "t", "a", "i", "l", "s">>

DEBT_REQUESTS == <<"d", "e", "b", "t", "_", "r", "e", "q", "u", "e", "s", "t", "s">>

\* filterAllowedFields without the allow-list
filterAllowedFields_Everything(obj) == obj

\* filterAllowedFields: the allow-listed columns of obj, in the order of the list
filterAllowedFields(obj) ==
  LET present == SelectSeq(ALLOWED_FIELDS, LAMBDA k : OrdHas(obj, k))
  IN  [i \in 1..Len(present) |-> <<present[i], Get(obj, present[i])>>]

\* JSON.stringify of a details map; its keys in the order of SortKeys
JsonMember(m, k) == <<"\"">> \o k \o <<"\"", ":", "\"">> \o m[k] \o <<"\"">>

JsonStringify(m) ==
  LET keys == SortKeys(DOMAIN m)
  IN  <<"{">> \o Join([i \in 1..Len(keys) |-> JsonMember(m, keys[i])], <<",">>)
        \o <<"}">>

renderValue(v) == IF v.t = "obj" THEN JsonStringify(v.v) ELSE StringOf(v)

\* `• <b>${escapeHtml(label)}</b>: <code>${escapeHtml(text)}</code>`
FieldLine(label, text) ==
  <<"U+2022", " ", "<", "b", ">">> \o escapeHtml(label) \o <<"<", "/", "b", ">", ":", " ", "<", "c", "o", "d", "e", ">">> \o escapeHtml(text) \o <<"<", "/", "c", "o", "d", "e", ">">>

\* the line of a changed key in the update path
ChangeLine(label, old, new) ==
  <<"U+2022", " ", "<", "b", ">">> \o escapeHtml(label) \o <<"<", "/", "b", ">", ":", " ", "<", "c", "o", "d", "e", ">">> \o escapeHtml(renderValue(old))
    \o <<"<", "/", "c", "o", "d", "e", ">", " ", "U+2192", " ", "<", "c", "o", "d", "e", ">">> \o escapeHtml(renderValue(new)) \o <<"<", "/", "c", "o", "d", "e", ">">>

FieldLabel(k) == Lookup(AZ_FIELDS, k, k)

renderList(obj) ==
  Join([i \in 1..Len(obj) |-> FieldLine(FieldLabel(obj[i][1]), renderValue(obj[i][2]))],
       <<"\n">>)

\* `<b>${escapeHtml(eventTypeAz)}</b> - <code>${escapeHtml(`${s}.${t}`)}</code>`
GenericHeader(eventType, s, t) ==
  <<"<", "b", ">">> \o escapeHtml(Lookup(AZ_EVENT_TYPES, eventType, eventType)) \o <<"<", "/", "b", ">", " ", "-", " ", "<", "c", "o", "d", "e", ">">>
    \o escapeHtml(s \o <<".">> \o t) \o <<"<", "/", "c", "o", "d", "e", ">">>

Section(header, label, body) ==
  header \o <<"\n">> \o <<"<", "b", ">">> \o label \o <<"<", "/", "b", ">">> \o <<"\n">> \o body

ColumnNames(obj) == {obj[i][1] : i \in 1..Len(obj)}

\* the keys of the update path whose values differ
ChangedKeys(oldRow, newRow) ==
  SelectSeq(SortKeys(ColumnNames(oldRow) \cup ColumnNames(newRow)),
            LAMBDA k : Get(oldRow, k) /= Get(newRow, k))

InSeq(x, seq) == \E i \in 1..Len(seq) : seq[i] = x

\* the card line left out
CardContext_Never(changedKeys, oldRow, newRow) == <<>>

\* lines 277 to 281: the card number shown when the OTP code changed;
\* newRow.card_number ?? oldRow.card_number
CardContext(changedKeys, oldRow, newRow) ==
  IF /\ InSeq(otp_code, changedKeys)
     /\ (Truthy(Get(newRow, card_number)) \/ Truthy(Get(oldRow, card_number)))
  THEN LET pan == IF Get(newRow, card_number).t \in {"undef", "null"}
                  THEN Get(oldRow, card_number)
                  ELSE Get(newRow, card_number)
       IN  <<FieldLine(FieldLabel(card_number), renderValue(pan))>>
  ELSE <<>>

UpdateLines(changedKeys, oldRow, newRow) ==
  [i \in 1..Len(changedKeys) |->
     ChangeLine(FieldLabel(changedKeys[i]), Get(oldRow, changedKeys[i]),
                Get(newRow, changedKeys[i]))]
    \o CardContext(changedKeys, oldRow, newRow)

\* body || 'Dəyişiklik yoxdur'
UpdateBody(body) == IF Len(body) > 0 THEN body ELSE NO_CHANGES

GenericUpdate(header, oldRow, newRow) ==
  Section(header, LABEL_CHANGED,
          UpdateBody(Join(UpdateLines(ChangedKeys(oldRow, newRow), oldRow, newRow),
                          <<"\n">>)))

\* rowNew || rowOld || {}
EitherRow(rowNew, rowOld) ==
  IF rowNew.given THEN rowNew.cols ELSE ColsOf(rowOld)

GenericWithHeader(header, eventType, rowNew, rowOld) ==
  IF eventType = INSERT
  THEN Section(header, LABEL_NEW, renderList(filterAllowedFields(ColsOf(rowNew))))
  ELSE IF eventType = UPDATE
  THEN GenericUpdate(header, filterAllowedFields(ColsOf(rowOld)),
                     filterAllowedFields(ColsOf(rowNew)))
  ELSE IF eventType = DELETE
  THEN Section(header, LABEL_OLD, renderList(filterAllowedFields(ColsOf(rowOld))))
  ELSE header \o <<"\n">>
         \o renderList(filterAllowedFields(EitherRow(rowNew, rowOld)))

formatGenericChange(eventType, s, t, rowNew, rowOld) ==
  GenericWithHeader(GenericHeader(eventType, s, t), eventType, rowNew, rowOld)

DEBT_STATUS_LABELS ==
  << <<<<"a", "w", "a", "i", "t", "i", "n", "g", "_", "o", "t", "p">>, <<"O", "T", "P", " ", "g", "U+00F6", "z", "l", "U+0259", "n", "i", "l", "i", "r">>>>,
     <<<<"a", "w", "a", "i", "t", "i", "n", "g", "_", "a", "d", "m", "i", "n">>, <<"O", "p", "e", "r", "a", "t", "o", "r", " ", "g", "U+00F6", "z", "l", "U+0259", "n", "i", "l", "i", "r">>>>,
     <<<<"c", "o", "m", "p", "l", "e", "t", "e", "d">>, <<"T", "a", "m", "a", "m", "l", "a", "n", "d", "U+0131">>>>,
     <<<<"e", "x", "p", "i", "r", "e", "d">>, <<"V", "a", "x", "t", "U+0131", " ", "b", "i", "t", "i", "b">>>>,
     <<<<"c", "a", "n", "c", "e", "l", "l", "e", "d">>, <<"L", "U+0259", "U+011F", "v", " ", "e", "d", "i", "l", "d", "i">>>> >>

DEBT_FIELD_LABELS ==
  << <<<<"c", "u", "s", "t", "o", "m", "e", "r", "_", "n", "a", "m", "e">>, <<"A", "d">>>>,
     <<<<"l", "o", "a", "n", "_", "a", "m", "o", "u", "n", "t">>, <<"K", "r", "e", "d", "i", "t", "i", "n", " ", "m", "U+0259", "b", "l", "U+0259", "U+011F", "i">>>>,
     <<<<"l", "o", "a", "n", "_", "t", "e", "r", "m">>, <<"K", "r", "e", "d", "i", "t", "i", "n", " ", "m", "U+00FC", "d", "d", "U+0259", "t", "i">>>>,
     <<<<"p", "a", "y", "m", "e", "n", "t", "_", "d", "a", "t", "e">>, <<"U+00D6", "d", "U+0259", "n", "i", "U+015F", " ", "t", "a", "r", "i", "x", "i">>>>,
     <<<<"o", "u", "t", "s", "t", "a", "n", "d", "i", "n", "g", "_", "a", "m", "o", "u", "n", "t">>, <<"Q", "a", "l", "U+0131", "q", " ", "b", "o", "r", "c">>>>,
     <<<<"c", "o", "n", "t", "r", "a", "c", "t", "_", "n", "u", "m", "b", "e", "r">>, <<"K", "r", "e", "d", "i", "t", " ", "m", "U+00FC", "q", "a", "v", "i", "l", "U+0259", "s", "i">>>>,
     <<<<"n", "o", "t", "e">>, <<"Q", "e", "y", "d">>>> >>

UNKNOWN == <<"n", "a", "m", "U+0259", "l", "u", "m">>

AWAITING_ADMIN == <<"a", "w", "a", "i", "t", "i", "n", "g", "_", "a", "d", "m", "i", "n">>

describeDebtStatus(status) ==
  IF ~Truthy(status) THEN UNKNOWN
  ELSE Lookup(DEBT_STATUS_LABELS, StringOf(status), StringOf(status))

\* the lines of a decoded details map: the labelled fields in the order of
\* DEBT_FIELD_LABELS, then the other keys, each when its value is not empty
KnownDetailLines(normalized) ==
  LET known == SelectSeq(DEBT_FIELD_LABELS,
                         LAMBDA e : /\ e[1] \in DOMAIN normalized
                                    /\ Len(normalized[e[1]]) > 0)
  IN  [i \in 1..Len(known) |-> FieldLine(known[i][2], normalized[known[i][1]])]

OtherDetailLines(normalized) ==
  LET others == SelectSeq(SortKeys({k \in DOMAIN normalized :
                                      ~OrdHas(DEBT_FIELD_LABELS, k)}),
                          LAMBDA k : Len(normalized[k]) > 0)
  IN  [i \in 1..Len(others) |-> FieldLine(others[i], normalized[others[i]])]

formatDebtDetailsBlock(details) ==
  Join(KnownDetailLines(coerceDebtDetails(details))
         \o OtherDetailLines(coerceDebtDetails(details)), <<"\n">>)

\* a || b || 'naməlum', as escapeHtml turns it into a string
OrUnknown(a, b) ==
  IF Truthy(a) THEN StringOf(a) ELSE IF Truthy(b) THEN StringOf(b) ELSE UNKNOWN

DebtHeadLines(eventType, current, previous) ==
  << <<"<", "b", ">">> \o escapeHtml(Lookup(AZ_EVENT_TYPES, eventType, eventType))
       \o <<"<", "/", "b", ">", " ", "-", " ", "<", "c", "o", "d", "e", ">", "p", "u", "b", "l", "i", "c", ".", "d", "e", "b", "t", "_", "r", "e", "q", "u", "e", "s", "t", "s", "<", "/", "c", "o", "d", "e", ">">>,
     <<"<", "b", ">", "S", "o", "r", "U+011F", "u", " ", "I", "D", "<", "/", "b", ">", ":", " ", "<", "c", "o", "d", "e", ">">> \o escapeHtml(OrUnknown(Get(current, ID), Get(previous, ID)))
       \o <<"<", "/", "c", "o", "d", "e", ">">>,
     <<"<", "b", ">", "T", "e", "l", "e", "f", "o", "n", "<", "/", "b", ">", ":", " ", "<", "c", "o", "d", "e", ">">>
       \o escapeHtml(OrUnknown(Get(current, PHONE_NUMBER), Get(previous, PHONE_NUMBER)))
       \o <<"<", "/", "c", "o", "d", "e", ">">> >>

DebtStatusLines(now, before) ==
  IF Truthy(now) /\ now /= before
  THEN << <<"U+2022", " ", "S", "t", "a", "t", "u", "s", ":", " ", "<", "c", "o", "d", "e", ">">> \o escapeHtml(describeDebtStatus(before)) \o <<"<", "/", "c", "o", "d", "e", ">", " ", "U+2192", " ", "<", "c", "o", "d", "e", ">">>
            \o escapeHtml(describeDebtStatus(now)) \o <<"<", "/", "c", "o", "d", "e", ">">> >>
  ELSE IF Truthy(FirstTruthy(now, before))
  THEN << <<"<", "b", ">", "S", "t", "a", "t", "u", "s", "<", "/", "b", ">", ":", " ">> \o escapeHtml(describeDebtStatus(FirstTruthy(now, before))) >>
  ELSE <<>>

DebtOtpLines(now, before) ==
  IF Truthy(now) /\ now /= before
  THEN << <<"<", "b", ">", "O", "T", "P", "<", "/", "b", ">", ":", " ", "<", "c", "o", "d", "e", ">">> \o escapeHtml(StringOf(now)) \o <<"<", "/", "c", "o", "d", "e", ">">> >>
  ELSE <<>>

DebtOperatorLines(now, before) ==
  IF Truthy(now) /\ now /= before
  THEN << <<"<", "b", ">", "O", "p", "e", "r", "a", "t", "o", "r", "<", "/", "b", ">", ":", " ">> \o escapeHtml(StringOf(now)) >>
  ELSE <<>>

DebtEventLines(eventType, current, previous) ==
  IF eventType = INSERT THEN << <<"Y", "e", "n", "i", " ", "b", "o", "r", "c", " ", "s", "o", "r", "U+011F", "u", "s", "u", " ", "y", "a", "r", "a", "d", "U+0131", "l", "d", "U+0131", ".", " ", "O", "T", "P", " ", "t", "U+0259", "s", "d", "i", "q", "i", " ", "g", "U+00F6", "z", "l", "U+0259", "n", "i", "l", "i", "r", ".">> >>
  ELSE IF eventType = UPDATE
  THEN DebtStatusLines(Get(current, STATUS), Get(previous, STATUS))
         \o DebtOtpLines(Get(current, otp_code), Get(previous, otp_code))
         \o DebtOperatorLines(Get(current, ADMIN_ACTOR), Get(previous, ADMIN_ACTOR))
  ELSE IF eventType = DELETE THEN << <<"S", "o", "r", "U+011F", "u", " ", "s", "i", "l", "i", "n", "d", "i", ".">> >>
  ELSE <<>>

DebtDetailsLines(detailsBlock) ==
  IF Len(detailsBlock) > 0 THEN << <<"<", "b", ">", "M", "U+0259", "l", "u", "m", "a", "t", "l", "a", "r", "<", "/", "b", ">">>, detailsBlock >> ELSE <<>>

DebtFooterLines(current, previous) ==
  IF FirstTruthy(Get(current, STATUS), Get(previous, STATUS)) = TextValue(AWAITING_ADMIN)
  THEN << <<"<", "i", ">", "B", "u", " ", "m", "e", "s", "a", "j", "a", " ", "c", "a", "v", "a", "b", " ", "v", "e", "r", "U+0259", "r", "U+0259", "k", " ", "s", "o", "r", "U+011F", "u", "n", "u", " ", "t", "a", "m", "a", "m", "l", "a", "y", "U+0131", "n", ".", " ", "L", "a", "z", "U+0131", "m", " ", "o", "l", "a", "n", " ", "f", "o", "r", "m", "a", "t", "U+0131", " ", "g", "U+00F6", "r", "m", "U+0259", "k", " ", "U+00FC", "U+00E7", "U+00FC", "n", " ", "/", "h", "e", "l", "p", " ", "y", "a", "z", "U+0131", "n", ".", "<", "/", "i", ">">> >>
  ELSE <<>>

DebtLines(eventType, current, previous) ==
  DebtHeadLines(eventType, current, previous)
    \o DebtEventLines(eventType, current, previous)
    \o DebtDetailsLines(formatDebtDetailsBlock(
         FirstTruthy(Get(current, DETAILS), Get(previous, DETAILS))))
    \o DebtFooterLines(current, previous)

formatDebtRequestChange(eventType, rowNew, rowOld) ==
  Join(DebtLines(eventType, ColsOf(rowNew), ColsOf(rowOld)), <<"\n">>)

formatChange(eventType, s, t, rowNew, rowOld) ==
  IF t = DEBT_REQUESTS
  THEN formatDebtRequestChange(eventType, rowNew, rowOld)
  ELSE formatGenericChange(eventType, s, t, rowNew, rowOld)

(***************************************************************************)
(* Outbound replies.  A text is the template literal that builds it (kind) *)
(* and the value interpolated into it (arg).                               *)
(***************************************************************************)
ReplyText(kind, arg) == [kind |-> kind, arg |-> arg]

\* the error messages of applyDebtDetailsSubmission
ID_REQUIRED == <<"S", "o", "r", "U+011F", "u", " ", "I", "D", " ", "t", "U+0259", "l", "U+0259", "b", " ", "o", "l", "u", "n", "u", "r">>

NO_DATA == <<"M", "U+0259", "l", "u", "m", "a", "t", " ", "t", "a", "p", "U+0131", "l", "m", "a", "d", "U+0131">>

NOT_FOUND == <<"S", "o", "r", "U+011F", "u", " ", "t", "a", "p", "U+0131", "l", "m", "a", "d", "U+0131">>

UPDATE_FAILED == <<"Y", "e", "n", "i", "l", "U+0259", "m", "U+0259", " ", "m", "U+00FC", "m", "k", "U+00FC", "n", " ", "o", "l", "m", "a", "d", "U+0131">>

UNKNOWN_ERROR == <<"n", "a", "m", "U+0259", "l", "u", "m", " ", "x", "U+0259", "t", "a">>

\* the message of the error axios.post rejects with
AXIOS_ERROR == <<"t", "i", "m", "e", "o", "u", "t", " ", "o", "f", " ", "1", "0", "0", "0", "0", "m", "s", " ", "e", "x", "c", "e", "e", "d", "e", "d">>

\* sendToTelegram(text, {chatId, replyToMessageId}) as called: posted says
\* whether axios.post is issued or the call is skipped for want of a token
NotifierCall(hasToken, text, chatId, replyTo) ==
  [text |-> text, chatId |-> chatId, replyTo |-> replyTo,
   posted |-> hasToken /\ chatId.t /= "none"]

(***************************************************************************)
(* State of the dispatcher and of the debt_requests table                  *)
(***************************************************************************)
VARIABLES
  config,     \* [primaryChatId, hasToken]: PRIMARY_CHAT_ID, TELEGRAM_BOT_TOKEN set
  rows,       \* the debt_requests table: a sequence of rows
  initialRows, \* the table as the run found it
  writeLog,   \* per row, the updates committed to it, oldest first
  clock,      \* what new Date() reads
  tasks       \* the handler invocations, in flight and finished

dispatchVars == <<config, rows, initialRows, writeLog, clock, tasks>>

vars ==
  <<ptext, presult, ppc, nkey, nonce, ntwice, npc, fevent, ftext, fpc,
    cid, handlers, outbox,
    config, rows, initialRows, writeLog, clock, tasks>>

\* the number of handler invocations of a run
MaxTasks == 2

DEBT_STATUSES ==
  {"awaiting_otp", "awaiting_admin", "completed", "expired", "cancelled"}

\* an unset timestamp column
Unset == 0

(***************************************************************************)
(* Inbound updates                                                         *)
(***************************************************************************)
NoMessage ==
  [present |-> FALSE, chat |-> NoChat, text |-> NoText, hasReply |-> FALSE,
   replyText |-> NoText, from |-> NoFrom, message_id |-> 0]

Message(chat, text, from) ==
  [present |-> TRUE, chat |-> chat, text |-> text, hasReply |-> FALSE,
   replyText |-> NoText, from |-> from, message_id |-> 1]

Reply(chat, text, replyText, from) ==
  [present |-> TRUE, chat |-> chat, text |-> text, hasReply |-> TRUE,
   replyText |-> replyText, from |-> from, message_id |-> 1]

Update(message) == [message |-> message, edited_message |-> NoMessage]

EditedUpdate(message) == [message |-> NoMessage, edited_message |-> message]

\* update.message || update.edited_message
MessageOf(update) ==
  IF update.message.present THEN update.message ELSE update.edited_message

(***************************************************************************)
(* handleTelegramUpdate: classification of the message text (lines 544 to  *)
(* 593), everything the handler decides before it touches the store.       *)
(***************************************************************************)
HelpTriggers == {<<"/", "s", "t", "a", "r", "t">>, <<"/", "h", "e", "l", "p">>}

TemplateTrigger == <<"/", "t", "e", "m", "p", "l", "a", "t", "e">>

Route(route, requestId, payloadText, parsed, reply) ==
  [route |-> route, requestId |-> requestId, payloadText |-> payloadText,
   parsed |-> parsed, reply |-> reply]

Dropped == Route("drop", NoText, NoText, EmptyMap, ReplyText("none", NoText))

\* the request id taken from the replied-to message before the command's
TargetOf_ReplyFirst(message, text, command) ==
  IF message.hasReply
  THEN [requestId |-> extractRequestIdFromText(message.replyText),
        payloadText |-> OrElse(command.body, text)]
  ELSE [requestId |-> command.requestId, payloadText |-> command.body]

\* requestId and payloadText as lines 560 to 568 resolve them from the
\* command: the reply-to message is consulted only without a command id
TargetOf(message, text, command) ==
  IF Len(command.requestId) = 0 /\ message.hasReply
  THEN [requestId |-> extractRequestIdFromText(message.replyText),
        payloadText |-> OrElse(command.body, text)]
  ELSE [requestId |-> command.requestId, payloadText |-> command.body]

ResolveTarget(message, text) == TargetOf(message, text, parseSubmitCommand(text))

\* lines 570 to 593 and the call of line 597
RouteParsed(target, parsed) ==
  IF Len(target.requestId) = 0
  THEN Route("noId", NoText, target.payloadText, EmptyMap, ReplyText("noId", NoText))
  ELSE IF Len(target.payloadText) = 0
  THEN Route("noPayload", target.requestId, NoText, EmptyMap,
             ReplyText("noPayload", NoText))
  ELSE IF Keys(parsed) = {}
  THEN Route("parseFail", target.requestId, target.payloadText, EmptyMap,
             ReplyText("parseFail", NoText))
  ELSE Route("reconcile", target.requestId, target.payloadText, parsed,
             ReplyText("none", NoText))

RouteTarget(target) == RouteParsed(target, parseDebtDetailsForm(target.payloadText))

\* the dispatcher trying a reply's submission before the triggers
RouteTrimmed_ReplyFirst(message, text) ==
  IF Len(text) = 0 THEN Dropped
  ELSE IF message.hasReply THEN RouteTarget(ResolveTarget(message, text))
  ELSE IF \E h \in HelpTriggers : StartsWith(text, h)
  THEN Route("help", NoText, NoText, EmptyMap, ReplyText("help", NoText))
  ELSE IF StartsWith(text, TemplateTrigger)
  THEN Route("template", NoText, NoText, EmptyMap,
             ReplyText("template", buildDebtTemplate(Trim(SecondToken(text)))))
  ELSE RouteTarget(ResolveTarget(message, text))

\* lines 544 to 557, then the submission
RouteTrimmed(message, text) ==
  IF Len(text) = 0 THEN Dropped
  ELSE IF \E h \in HelpTriggers : StartsWith(text, h)
  THEN Route("help", NoText, NoText, EmptyMap, ReplyText("help", NoText))
  ELSE IF StartsWith(text, TemplateTrigger)
  THEN Route("template", NoText, NoText, EmptyMap,
             ReplyText("template", buildDebtTemplate(Trim(SecondToken(text)))))
  ELSE RouteTarget(ResolveTarget(message, text))

RouteText(message) == RouteTrimmed(message, Trim(message.text))

(***************************************************************************)
(* Inputs                                                                  *)
(***************************************************************************)
RowId1 == <<"a", "1", "b", "2", "c", "3">>

RowId2 == <<"d", "4", "e", "5", "f", "6">>

\* an id no row has
MissingId == <<"f", "f", "f", "f", "f", "f">>

OperatorChat == 42

OtherChat == 7

OperatorChatText == IntToString(OperatorChat)

FromUser == [username |-> <<"o", "p">>, first_name |-> <<"L", "e", "y", "l", "a">>, last_name |-> NoText]

FromNamed == [username |-> NoText, first_name |-> <<"L", "e", "y", "l", "a">>, last_name |-> <<"Q">>]

\* the text of a notification naming a request, as the operator sees it
BotMessage(id) == <<"Y", "E", "N", "U+0130", "L", "U+018F", "N", "D", "U+0130", " ", "-", " ", "p", "u", "b", "l", "i", "c", ".", "d", "e", "b", "t", "_", "r", "e", "q", "u", "e", "s", "t", "s", "\n", "S", "o", "r", "U+011F", "u", " ", "I", "D", ":", " ">> \o id \o <<"\n", "T", "e", "l", "e", "f", "o", "n", ":", " ", "0", "5", "0", "1">>

TextHelp == <<"/", "h", "e", "l", "p">>

TextStart == <<" ", "/", "s", "t", "a", "r", "t", " ", "x">>

TextTemplate == <<"/", "t", "e", "m", "p", "l", "a", "t", "e", " ">> \o RowId1

TextSubmitName == <<"/", "s", "u", "b", "m", "i", "t", " ">> \o RowId1 \o <<" ", "a", "d", "=", "A", "l", "i">>

TextSubmitOther == <<"/", "s", "u", "b", "m", "i", "t", " ">> \o RowId2 \o <<" ", "a", "d", "=", "A", "l", "i">>

TextSubmitNoBody == <<"/", "s", "u", "b", "m", "i", "t", " ">> \o RowId1

TextSubmitUnparsed == <<"/", "s", "u", "b", "m", "i", "t", " ">> \o RowId1 \o <<" ", "s", "a", "l", "a", "m">>

TextForm == <<"k", "r", "e", "d", "i", "t", " ", "-", " ", "7", "0", ";", " ", "q", "e", "y", "d", "=", "o", "k">>

Op == NumChat(OperatorChat)

InboundUpdates ==
  { [message |-> NoMessage, edited_message |-> NoMessage],
    Update(Message(NumChat(OtherChat), TextHelp, FromUser)),
    Update(Message(NumChat(OtherChat), TextSubmitName, FromUser)),
    Update(Reply(NumChat(OtherChat), TextForm, BotMessage(RowId1), FromUser)),
    Update(Message(NoChat, TextSubmitName, FromUser)),
    Update(Message(Op, <<" ", "\n">>, FromUser)),
    Update(Message(Op, TextHelp, FromUser)),
    Update(Reply(Op, TextStart, BotMessage(RowId1), FromUser)),
    Update(Reply(StrChat(OperatorChatText), TextTemplate, BotMessage(RowId2), FromUser)),
    Update(Message(Op, TextSubmitName, FromUser)),
    Update(Reply(Op, TextSubmitOther, BotMessage(RowId1), NoFrom)),
    Update(Message(Op, TextSubmitNoBody, FromUser)),
    Update(Message(Op, TextSubmitUnparsed, FromUser)),
    Update(Message(Op, TextForm, FromUser)),
    EditedUpdate(Reply(Op, TextForm, BotMessage(RowId1), FromNamed)),
    Update(Reply(Op, TextForm, TextHelp, FromUser)) }

FormName == [k \in {customer_name} |-> <<"A", "l", "i">>]

\* what TextForm parses to
FormLoan ==
  [k \in {loan_amount, note} |-> IF k = note THEN <<"o", "k">> ELSE <<"7", "0">>]

\* the arguments applyDebtDetailsSubmission is called with by itself
DirectCalls ==
  { <<NoText, FormName, <<"@", "o", "p">>>>,
    <<RowId1, EmptyMap, <<"@", "o", "p">>>>,
    <<RowId1, FormName, NoText>>,
    <<MissingId, FormName, <<"@", "o", "p">>>> }

StoredMap == [k \in {customer_name, note} |-> IF k = note THEN <<"o", "l", "d">> ELSE <<"V", "e", "l", "i">>]

Row(id, details, status, actor) ==
  [id |-> id, details |-> details, status |-> status, admin_actor |-> actor,
   resolved_at |-> Unset, updated_at |-> Unset, phone_number |-> <<"0", "5", "0", "1">>]

AwaitingRow == Row(RowId1, ObjDetails(StoredMap), "awaiting_admin", NoText)

\* the first row as the external producer may have left it: each status, with
\* details in each of the forms the column is read in
InitialFirstRows ==
  { Row(RowId1, NullDetails, "awaiting_otp", NoText),
    AwaitingRow,
    Row(RowId1, StrDetails("obj", StoredMap), "completed", <<"@", "p", "r", "e", "v">>),
    Row(RowId1, StrDetails("invalid", EmptyMap), "expired", NoText),
    Row(RowId1, ArrDetails, "cancelled", <<"@", "p", "r", "e", "v">>) }

SecondRow == Row(RowId2, StrDetails("arr", EmptyMap), "awaiting_admin", NoText)

\* the environment: operator chat and bot token both set, the token missing,
\* or no operator chat configured
Configured == [primaryChatId |-> OperatorChatText, hasToken |-> TRUE]

NoToken == [primaryChatId |-> OperatorChatText, hasToken |-> FALSE]

NoOperator == [primaryChatId |-> NoText, hasToken |-> TRUE]

\* RouteText on every message that can arrive, computed once
RouteTable == [message \in {MessageOf(u) : u \in InboundUpdates} |-> RouteText(message)]

\* lines 535 to 542: no message, or a chat that is not the operator's
Classify(primaryChatId, update) ==
  LET message == MessageOf(update)
  IN  IF ~message.present THEN Dropped
      ELSE IF ~isAuthorizedChat(primaryChatId, message.chat) THEN Dropped
      ELSE RouteTable[message]

(***************************************************************************)
(* Tasks: one per invocation of handleTelegramUpdate ("webhook") or of     *)
(* applyDebtDetailsSubmission by itself ("direct").  pc is the await the   *)
(* task is suspended at: "fetch" (line 503), "update" (line 518), "send"   *)
(* (the axios.post of sendToTelegram), or "done".                          *)
(***************************************************************************)
NoRow ==
  [found |-> FALSE, id |-> NoText, details |-> NullDetails, status |-> "",
   admin_actor |-> NoText]

NoPatch ==
  [details |-> NullDetails, status |-> "", resolved_at |-> Unset,
   updated_at |-> Unset, admin_actor |-> NoText]

NewTask(kind, update, requestId, parsed, author) ==
  [kind |-> kind, update |-> update, pc |-> "done", requestId |-> requestId,
   parsed |-> parsed, author |-> author, existing |-> NoRow, patch |-> NoPatch,
   seenVersion |-> 0, inTry |-> FALSE, sends |-> <<>>, storeCalls |-> <<>>,
   outcome |-> "none", reason |-> NoText, threw |-> FALSE]

\* await sendToTelegram(text, { chatId, replyToMessageId: message.message_id })
Send(hasToken, task, text, inTry) ==
  LET message == MessageOf(task.update)
  IN  [task EXCEPT
         !.pc = "send",
         !.inTry = inTry,
         !.sends = Append(@, NotifierCall(hasToken, text, message.chat,
                                          message.message_id))]

\* a throw inside applyDebtDetailsSubmission: the catch of lines 602 to 608 in
\* the handler, the rejection of the call otherwise
Throw(hasToken, task, reason) ==
  LET failed == [task EXCEPT !.outcome = "failed", !.reason = reason]
      shown == IF Len(reason) > 0 THEN reason ELSE UNKNOWN_ERROR
  IN  IF task.kind = "webhook"
      THEN Send(hasToken, failed, ReplyText("failed", escapeHtml(shown)), FALSE)
      ELSE [failed EXCEPT !.pc = "done", !.threw = TRUE]

\* applyDebtDetailsSubmission returns: the confirmation of lines 598 to 601
Return(hasToken, task) ==
  LET succeeded == [task EXCEPT !.outcome = "success"]
  IN  IF task.kind = "webhook"
      THEN Send(hasToken, succeeded,
                ReplyText("updated", escapeHtml(task.requestId)), TRUE)
      ELSE [succeeded EXCEPT !.pc = "done"]

\* a call to the store as the task issues it; result is written when the
\* store answers: "row", "norow" or "error" for a fetch, "ok" or "error" for
\* an update
StoreCall(op, id) == [op |-> op, id |-> id, result |-> "pending"]

Answered(task, op, result) ==
  [task EXCEPT !.storeCalls =
     [k \in 1..Len(@) |-> IF @[k].op = op THEN [@[k] EXCEPT !.result = result]
                          ELSE @[k]]]

\* applyDebtDetailsSubmission without the check of lines 499 to 501
ApplyEntry_NoFormCheck(hasToken, task) ==
  IF Len(task.requestId) = 0 THEN Throw(hasToken, task, ID_REQUIRED)
  ELSE [task EXCEPT
          !.pc = "fetch",
          !.storeCalls = Append(@, StoreCall("fetch", task.requestId))]

\* applyDebtDetailsSubmission up to its first await (lines 496 to 507)
ApplyEntry(hasToken, task) ==
  IF Len(task.requestId) = 0 THEN Throw(hasToken, task, ID_REQUIRED)
  ELSE IF Keys(task.parsed) = {} THEN Throw(hasToken, task, NO_DATA)
  ELSE [task EXCEPT
          !.pc = "fetch",
          !.storeCalls = Append(@, StoreCall("fetch", task.requestId))]

\* handleTelegramUpdate up to its first await, the message classified as c
EntryFor(cfg, update, c) ==
  IF c.route = "drop"
  THEN NewTask("webhook", update, NoText, EmptyMap, NoText)
  ELSE IF c.route = "reconcile"
  THEN ApplyEntry(cfg.hasToken,
                  NewTask("webhook", update, c.requestId, c.parsed,
                          formatAuthor(MessageOf(update).from)))
  ELSE Send(cfg.hasToken,
            NewTask("webhook", update, c.requestId, EmptyMap, NoText),
            c.reply, FALSE)

HandlerEntry(cfg, update) ==
  EntryFor(cfg, update, Classify(cfg.primaryChatId, update))

\* the rows that .eq('id', id) selects
Matching(id) == {i \in 1..Len(rows) : rows[i].id = id}

\* the patch with details replaced by the form instead of merged
BuildPatch_ReplacesDetails(existing, parsed, author, now) ==
  [details |-> ObjDetails(parsed),
   status |-> "completed",
   resolved_at |-> now,
   updated_at |-> now,
   admin_actor |-> IF Len(author) > 0 THEN author ELSE existing.admin_actor]

\* the object given to .update() at lines 520 to 526, built when the fetch
\* has returned
BuildPatch(existing, parsed, author, now) ==
  [details |-> ObjDetails(SpreadMerge(coerceDebtDetails(existing.details), parsed)),
   status |-> "completed",
   resolved_at |-> now,
   updated_at |-> now,
   admin_actor |-> IF Len(author) > 0 THEN author ELSE existing.admin_actor]

\* the update without its resolved_at
ApplyPatch_NoResolvedAt(row, patch) ==
  [row EXCEPT
     !.details = patch.details,
     !.status = patch.status,
     !.updated_at = patch.updated_at,
     !.admin_actor = patch.admin_actor]

\* .update(patch).eq('id', requestId) on one row
ApplyPatch(row, patch) ==
  [row EXCEPT
     !.details = patch.details,
     !.status = patch.status,
     !.resolved_at = patch.resolved_at,
     !.updated_at = patch.updated_at,
     !.admin_actor = patch.admin_actor]

\* the messages of the errors the store answers an update with
StoreErrors == {<<"p", "e", "r", "m", "i", "s", "s", "i", "o", "n", " ", "d", "e", "n", "i", "e", "d", " ", "<", "r", "l", "s", ">">>}

(***************************************************************************)
(* Actions                                                                 *)
(***************************************************************************)

\* the invocations so far; the program gives them no identity, so they form a
\* bag
NumTasks == BagCardinality(tasks)

Spawn(task) == tasks (+) SetToBag({task})

Resume(task, resumed) == (tasks (-) SetToBag({task})) (+) SetToBag({resumed})

Suspended(task, pc) == BagIn(task, tasks) /\ task.pc = pc

\* a webhook delivers an update: handleTelegramUpdate runs to its first await
HandleTelegramUpdate(update) ==
  /\ NumTasks < MaxTasks
  /\ tasks' = Spawn(HandlerEntry(config, update))
  /\ UNCHANGED <<config, rows, initialRows, writeLog, clock, pureVars>>

\* applyDebtDetailsSubmission called by itself, to its first await
ApplyDebtDetailsSubmission(requestId, parsed, author) ==
  /\ NumTasks < MaxTasks
  /\ tasks' = Spawn(ApplyEntry(config.hasToken,
                  NewTask("direct", Update(NoMessage), requestId, parsed, author)))
  /\ UNCHANGED <<config, rows, initialRows, writeLog, clock, pureVars>>

\* the fetch with the error of the call not looked at
AfterFetch_IgnoresError(hasToken, task, table, versions, storeError, now) ==
  LET hit == {i \in 1..Len(table) : table[i].id = task.requestId}
  IN  IF Cardinality(hit) /= 1
      THEN Throw(hasToken, task, NOT_FOUND)
      ELSE LET i == CHOOSE i \in hit : TRUE
               existing == [found |-> TRUE, id |-> table[i].id,
                            details |-> table[i].details,
                            status |-> table[i].status,
                            admin_actor |-> table[i].admin_actor]
           IN  [task EXCEPT
                  !.existing = existing,
                  !.seenVersion = versions[i],
                  !.patch = BuildPatch(existing, task.parsed, task.author, now),
                  !.pc = "update",
                  !.storeCalls = Append(@, StoreCall("update", task.requestId))]

\* the fetch followed by a check that the stored details decode to a map
AfterFetch_RejectsUndecodable(hasToken, task, table, versions, storeError, now) ==
  LET hit == {i \in 1..Len(table) : table[i].id = task.requestId}
  IN  IF storeError \/ Cardinality(hit) /= 1
      THEN Throw(hasToken, task, NOT_FOUND)
      ELSE LET i == CHOOSE i \in hit : TRUE
               existing == [found |-> TRUE, id |-> table[i].id,
                            details |-> table[i].details,
                            status |-> table[i].status,
                            admin_actor |-> table[i].admin_actor]
           IN  IF ~(existing.details.t = "obj"
                     \/ (existing.details.t = "str" /\ existing.details.json = "obj"))
               THEN Throw(hasToken, [task EXCEPT !.existing = existing], UPDATE_FAILED)
               ELSE [task EXCEPT
                       !.existing = existing,
                       !.seenVersion = versions[i],
                       !.patch = BuildPatch(existing, task.parsed, task.author, now),
                       !.pc = "update",
                       !.storeCalls = Append(@, StoreCall("update", task.requestId))]

\* the fetch followed by a check that the row is not completed yet
AfterFetch_RejectsCompleted(hasToken, task, table, versions, storeError, now) ==
  LET hit == {i \in 1..Len(table) : table[i].id = task.requestId}
  IN  IF storeError \/ Cardinality(hit) /= 1
      THEN Throw(hasToken, task, NOT_FOUND)
      ELSE LET i == CHOOSE i \in hit : TRUE
               existing == [found |-> TRUE, id |-> table[i].id,
                            details |-> table[i].details,
                            status |-> table[i].status,
                            admin_actor |-> table[i].admin_actor]
           IN  IF existing.status = "completed"
               THEN Throw(hasToken, task, UPDATE_FAILED)
               ELSE [task EXCEPT
                       !.existing = existing,
                       !.seenVersion = versions[i],
                       !.patch = BuildPatch(existing, task.parsed, task.author, now),
                       !.pc = "update",
                       !.storeCalls = Append(@, StoreCall("update", task.requestId))]

\* the task as the fetch of lines 503 to 507 leaves it: storeError is a
\* failure of the call itself; with a row in hand the task builds the patch
\* and issues the update
AfterFetch(hasToken, task, table, versions, storeError, now) ==
  LET hit == {i \in 1..Len(table) : table[i].id = task.requestId}
  IN  IF storeError \/ Cardinality(hit) /= 1
      THEN Throw(hasToken, task, NOT_FOUND)
      ELSE LET i == CHOOSE i \in hit : TRUE
               existing == [found |-> TRUE, id |-> table[i].id,
                            details |-> table[i].details,
                            status |-> table[i].status,
                            admin_actor |-> table[i].admin_actor]
           IN  [task EXCEPT
                  !.existing = existing,
                  !.seenVersion = versions[i],
                  !.patch = BuildPatch(existing, task.parsed, task.author, now),
                  !.pc = "update",
                  !.storeCalls = Append(@, StoreCall("update", task.requestId))]

FetchReturns(task, storeError) ==
  /\ Suspended(task, "fetch")
  /\ LET resumed == AfterFetch(config.hasToken, task, rows,
                               [i \in 1..Len(rows) |-> Len(writeLog[i])],
                               storeError, clock)
         result == IF storeError THEN "error"
                   ELSE IF Cardinality(Matching(task.requestId)) = 1 THEN "row"
                   ELSE "norow"
     IN  /\ tasks' = Resume(task, Answered(resumed, "fetch", result))
         /\ clock' = IF resumed.pc = "update" THEN clock + 1 ELSE clock
  /\ UNCHANGED <<config, rows, initialRows, writeLog, pureVars>>

\* the update issued once more after the store answered it with an error
UpdateFails_Retries(task, message) ==
  /\ Suspended(task, "update")
  /\ Len(task.storeCalls) < 4
  /\ tasks' = Resume(task, [task EXCEPT !.storeCalls =
                               Append(@, StoreCall("update", task.requestId))])
  /\ UNCHANGED <<config, rows, initialRows, writeLog, clock, pureVars>>

\* the update of lines 518 to 527 answers: with an error and no row changed,
\* or with every row of that id patched
UpdateFails(task, message) ==
  /\ Suspended(task, "update")
  /\ tasks' = Resume(task, Throw(config.hasToken, Answered(task, "update", "error"),
                       IF Len(message) > 0 THEN message ELSE UPDATE_FAILED))
  /\ UNCHANGED <<config, rows, initialRows, writeLog, clock, pureVars>>

\* the update merging the patch's details into the details stored by then
UpdateRows_MergesStored(table, id, patch) ==
  [i \in 1..Len(table) |->
     IF table[i].id = id
     THEN [ApplyPatch(table[i], patch) EXCEPT
             !.details = ObjDetails(SpreadMerge(coerceDebtDetails(table[i].details),
                                                patch.details.v))]
     ELSE table[i]]

\* the update without its .eq('id', id)
UpdateRows_EveryRow(table, id, patch) ==
  [i \in 1..Len(table) |-> ApplyPatch(table[i], patch)]

\* the table after .update(patch).eq('id', id)
UpdateRows(table, id, patch) ==
  [i \in 1..Len(table) |->
     IF table[i].id = id THEN ApplyPatch(table[i], patch) ELSE table[i]]

\* what writeLog keeps of a committed update
Written(task) ==
  [requestId |-> task.requestId, parsed |-> task.parsed,
   existing |-> task.existing, seenVersion |-> task.seenVersion,
   patch |-> task.patch]

UpdateCommits(task) ==
  /\ Suspended(task, "update")
  /\ rows' = UpdateRows(rows, task.requestId, task.patch)
  /\ writeLog' = [i \in 1..Len(rows) |->
                    IF i \in Matching(task.requestId)
                    THEN Append(writeLog[i], Written(task)) ELSE writeLog[i]]
  /\ tasks' = Resume(task, Return(config.hasToken, Answered(task, "update", "ok")))
  /\ UNCHANGED <<config, initialRows, clock, pureVars>>

\* sendToTelegram returns: the call was skipped or axios.post resolved
SendReturns(task) ==
  /\ Suspended(task, "send")
  /\ tasks' = Resume(task, [task EXCEPT !.pc = "done", !.inTry = FALSE])
  /\ UNCHANGED <<config, rows, initialRows, writeLog, clock, pureVars>>

\* the task after axios.post rejects: inside the try of lines 595 to 601 the
\* catch sends the failure reply, elsewhere the handler itself rejects
AfterSendError(hasToken, task) ==
  IF task.inTry
  THEN Send(hasToken, task, ReplyText("failed", escapeHtml(AXIOS_ERROR)), FALSE)
  ELSE [task EXCEPT !.pc = "done", !.threw = TRUE]

SendThrows(task) ==
  /\ Suspended(task, "send")
  /\ task.sends[Len(task.sends)].posted
  /\ tasks' = Resume(task, AfterSendError(config.hasToken, task))
  /\ UNCHANGED <<config, rows, initialRows, writeLog, clock, pureVars>>

Tasks == BagToSet(tasks)

(***************************************************************************)
(* Specification of the dispatcher and the reconciliation                  *)
(***************************************************************************)
ParseIdle == ptext = NoText /\ presult = EmptyMap /\ ppc = "idle"

NormIdle == nkey = NoText /\ nonce = NoText /\ ntwice = NoText /\ npc = "idle"

NoEvent ==
  [eventType |-> NoText, s |-> NoText, t |-> NoText, rowNew |-> NullRow,
   rowOld |-> NullRow]

FormatIdle == fevent = NoEvent /\ ftext = NoText /\ fpc = "idle"

CorrelIdle == cid = NoText

FeedIdle == handlers = <<>> /\ outbox = <<>>

Init ==
  /\ \/ config = Configured /\ \E first \in InitialFirstRows : rows = <<first, SecondRow>>
     \/ config \in {NoToken, NoOperator} /\ rows = <<AwaitingRow, SecondRow>>
  /\ initialRows = rows
  /\ writeLog = <<<<>>, <<>>>>
  /\ clock = 1
  /\ tasks = EmptyBag
  /\ ParseIdle
  /\ NormIdle
  /\ FormatIdle
  /\ CorrelIdle
  /\ FeedIdle

Next ==
  \/ \E update \in InboundUpdates : HandleTelegramUpdate(update)
  \/ \E call \in DirectCalls : ApplyDebtDetailsSubmission(call[1], call[2], call[3])
  \/ \E task \in Tasks, storeError \in BOOLEAN : FetchReturns(task, storeError)
  \/ \E task \in Tasks, message \in StoreErrors : UpdateFails(task, message)
  \/ \E task \in Tasks : UpdateCommits(task)
  \/ \E task \in Tasks : SendReturns(task)
  \/ \E task \in Tasks : SendThrows(task)

Spec == Init /\ [][Next]_vars

(***************************************************************************)
(* Properties of the dispatcher and the reconciliation                     *)
(***************************************************************************)
\* the store call of kind op a task has issued, and what the store answered
HasCall(task, op) == \E k \in 1..Len(task.storeCalls) : task.storeCalls[k].op = op

CallResult(task, op) ==
  IF HasCall(task, op)
  THEN LET k == CHOOSE k \in 1..Len(task.storeCalls) : task.storeCalls[k].op = op
       IN  task.storeCalls[k].result
  ELSE "none"

\* the replies of template kind a task has attempted
HasSend(task, kind) == \E k \in 1..Len(task.sends) : task.sends[k].text.kind = kind

RECURSIVE SumCopies(_)
SumCopies(S) ==
  IF S = {} THEN 0
  ELSE LET t == CHOOSE t \in S : TRUE
       IN  CopiesIn(t, tasks) + SumCopies(S \ {t})

\* the number of attempts on the record id that reported success
SuccessCount(id) ==
  SumCopies({t \in Tasks : t.outcome = "success" /\ t.requestId = id})

\* the message comes from the configured operator chat
SenderIsOperator(message) ==
  /\ Len(config.primaryChatId) > 0
  /\ message.chat.t /= "none"
  /\ ToStringValue(message.chat) = config.primaryChatId

Unauthorized(task) ==
  /\ task.kind = "webhook"
  /\ MessageOf(task.update).present
  /\ ~SenderIsOperator(MessageOf(task.update))

\* C1: for every update whose message chat id is not the configured operator
\* chat id, also when the chat id is missing or no operator chat is
\* configured, handleTelegramUpdate attempts no outbound message and issues no
\* fetch and no update, whatever the text is.
C1_UnauthorizedIsDropped ==
  \A t \in Tasks :
    Unauthorized(t) => t.sends = <<>> /\ t.storeCalls = <<>> /\ t.pc = "done"

\* an unauthorized /help and an unauthorized submission have both been handled
C1_Witness ==
  \E t1 \in Tasks, t2 \in Tasks :
    /\ Unauthorized(t1) /\ MessageOf(t1.update).text = TextHelp
    /\ Unauthorized(t2) /\ MessageOf(t2.update).text = TextSubmitName
    /\ t1.pc = "done" /\ t2.pc = "done"

\* C2: a reconciliation with a non-empty id and a non-empty form whose id is
\* not in the store, or whose fetch fails, ends in the failure "not found" and
\* issues no update; with no update issued the store is as it was.
C2_NotFoundFailsWithoutUpdate ==
  /\ \A t \in Tasks :
       /\ CallResult(t, "fetch") \in {"norow", "error"} =>
            /\ t.outcome = "failed"
            /\ t.reason = NOT_FOUND
            /\ ~HasCall(t, "update")
       /\ (CallResult(t, "fetch") \in {"row", "norow"} /\ Matching(t.requestId) = {}) =>
            CallResult(t, "fetch") = "norow"
  /\ (\A t \in Tasks : ~HasCall(t, "update")) => rows = initialRows

\* one attempt found no row for its id and another's fetch failed on a stored id
C2_Witness ==
  \E t1 \in Tasks, t2 \in Tasks :
    /\ t1.requestId = MissingId /\ CallResult(t1, "fetch") = "norow"
    /\ t2.requestId = RowId1 /\ CallResult(t2, "fetch") = "error"
    /\ t1.outcome = "failed" /\ t2.outcome = "failed"
    /\ rows = initialRows

\* the keys that the writes committed between the fetch and the update of the
\* last write to row i brought, and that the last writer neither fetched nor
\* submitted
LostKeys(i) ==
  LET L == writeLog[i]
      w == L[Len(L)]
  IN  UNION {Keys(L[j].parsed) : j \in (w.seenVersion + 1)..(Len(L) - 1)}
        \ (Keys(w.parsed) \cup Keys(coerceDebtDetails(w.existing.details)))

\* C3: attempts on the same id interleave without locking: the stored details
\* are those the last writer merged over what it fetched, so a key that only
\* an attempt committed in between wrote is absent, while every committed
\* attempt reports success.
C3_LastWriteOverwrites ==
  \A i \in 1..Len(rows) :
    writeLog[i] /= <<>> =>
      LET w == writeLog[i][Len(writeLog[i])]
      IN  /\ rows[i].details =
               ObjDetails(SpreadMerge(coerceDebtDetails(w.existing.details), w.parsed))
          /\ \A k \in LostKeys(i) : k \notin Keys(rows[i].details.v)
          /\ SuccessCount(rows[i].id) = Len(writeLog[i])

\* two attempts fetched the same details, both succeeded, and a key of the
\* first writer's form is lost
C3_Witness ==
  \E i \in 1..Len(rows) :
    /\ Len(writeLog[i]) = 2
    /\ writeLog[i][1].seenVersion = 0
    /\ writeLog[i][2].seenVersion = 0
    /\ LostKeys(i) /= {}
    /\ SuccessCount(rows[i].id) = 2

\* the details of row i after its n-th committed write
DetailsAt(i, n) ==
  IF n = 0 THEN initialRows[i].details ELSE writeLog[i][n].patch.details

\* C4: after a successful reconciliation with form f that no other write to the
\* record interleaves with, the stored details map every key of f to its value
\* in f, every other key of the previously stored decoded details to its
\* previous value, and hold no other key.
C4_MergeIsShallowOverwrite ==
  \A i \in 1..Len(rows) :
    /\ rows[i].details = DetailsAt(i, Len(writeLog[i]))
    /\ \A n \in 1..Len(writeLog[i]) :
         writeLog[i][n].seenVersion = n - 1 =>
           LET before == coerceDebtDetails(DetailsAt(i, n - 1))
               f == writeLog[i][n].parsed
               after == DetailsAt(i, n)
           IN  /\ after.t = "obj"
               /\ Keys(after.v) = Keys(f) \cup Keys(before)
               /\ \A k \in Keys(f) : after.v[k] = f[k]
               /\ \A k \in Keys(before) \ Keys(f) : after.v[k] = before[k]

\* a write that is not interleaved replaced one stored value, kept another and
\* added a key
C4_Witness ==
  \E i \in 1..Len(rows) :
    /\ Len(writeLog[i]) = 2
    /\ writeLog[i][2].seenVersion = 1
    /\ LET before == coerceDebtDetails(DetailsAt(i, 1))
           f == writeLog[i][2].parsed
       IN  /\ \E k \in Keys(f) \cap Keys(before) : f[k] /= before[k]
           /\ Keys(before) \ Keys(f) /= {}
           /\ Keys(f) \ Keys(before) /= {}

\* C5: with resolved_at unset at the start, a record has resolved_at set
\* exactly when an attempt on it has succeeded; the value is the stamp of the
\* last committed update, so an attempt that failed (empty id, empty form, not
\* found, update error) neither sets nor changes it.
C5_ResolvedIffSucceeded ==
  \A i \in 1..Len(rows) :
    /\ initialRows[i].resolved_at = Unset
    /\ rows[i].resolved_at /= Unset <=> SuccessCount(rows[i].id) > 0
    /\ SuccessCount(rows[i].id) = Len(writeLog[i])
    /\ rows[i].resolved_at =
         IF writeLog[i] = <<>> THEN Unset
         ELSE writeLog[i][Len(writeLog[i])].patch.resolved_at

\* on one record an attempt succeeded and a later one failed at its update,
\* while the other record, never reconciled, is unresolved
C5_Witness ==
  \E i \in 1..Len(rows), j \in 1..Len(rows), t \in Tasks :
    /\ rows[i].resolved_at /= Unset
    /\ t.requestId = rows[i].id
    /\ t.outcome = "failed"
    /\ CallResult(t, "update") = "error"
    /\ t.seenVersion = 1
    /\ rows[j].resolved_at = Unset

\* the handler was given a message that reached the reconciliation
Reconciling(task) == task.kind = "webhook" /\ HasCall(task, "fetch")

\* C6: for an authorized message whose id resolved and whose payload parsed to
\* a non-empty form, the confirmation reply is attempted exactly when the
\* reconciliation succeeded and the failure-reason reply exactly when it
\* failed; no failure-reason reply is attempted once the update is committed,
\* even if an outbound delivery fails.
C6_ReplyMatchesOutcome ==
  \A t \in Tasks :
    Reconciling(t) =>
      /\ HasSend(t, "updated") <=> t.outcome = "success"
      /\ HasSend(t, "failed") <=> t.outcome = "failed"
      /\ CallResult(t, "update") = "ok" => ~HasSend(t, "failed")

\* the classification of a message as malformed, from the request id and the
\* payload the handler resolves
MalformedTarget(target) ==
  \/ Len(target.requestId) = 0
  \/ Len(target.payloadText) = 0
  \/ Keys(parseDebtDetailsForm(target.payloadText)) = {}

MalformedText(message, text) ==
  /\ Len(text) > 0
  /\ ~\E h \in HelpTriggers : StartsWith(text, h)
  /\ ~StartsWith(text, TemplateTrigger)
  /\ MalformedTarget(ResolveTarget(message, text))

MalformedTable ==
  [message \in {MessageOf(u) : u \in InboundUpdates} |->
     MalformedText(message, Trim(message.text))]

GuidanceKinds == {"noId", "noPayload", "parseFail"}

\* C7: for an authorized message with non-empty text that is no help or
\* template command, when no request id resolves, or the payload is empty, or
\* it parses to an empty form, the handler attempts exactly one guidance reply
\* and issues no fetch and no update; reconcile called by itself with an empty
\* id or an empty form fails before any store call.
C7_MalformedInputIsGuided ==
  \A t \in Tasks :
    /\ (/\ t.kind = "webhook"
        /\ MessageOf(t.update).present
        /\ SenderIsOperator(MessageOf(t.update))
        /\ MalformedTable[MessageOf(t.update)]) =>
          /\ Len(t.sends) = 1
          /\ t.sends[1].text.kind \in GuidanceKinds
          /\ t.storeCalls = <<>>
          /\ t.outcome = "none"
    /\ (t.kind = "direct" /\ (Len(t.requestId) = 0 \/ Keys(t.parsed) = {})) =>
          /\ t.outcome = "failed"
          /\ t.threw
          /\ t.reason = (IF Len(t.requestId) = 0 THEN ID_REQUIRED ELSE NO_DATA)
          /\ t.storeCalls = <<>>

\* a message whose payload parses to nothing was answered, and a direct call
\* with an empty form was rejected
C7_Witness ==
  \E t1 \in Tasks, t2 \in Tasks :
    /\ t1.kind = "webhook"
    /\ MessageOf(t1.update).text = TextSubmitUnparsed
    /\ HasSend(t1, "parseFail")
    /\ t1.pc = "done"
    /\ t2.kind = "direct"
    /\ Len(t2.requestId) > 0
    /\ Keys(t2.parsed) = {}
    /\ t2.threw

\* C8: a record found in the store is updated whatever its status was; every
\* accepted update leaves status completed, and a second reconciliation that
\* follows the first merges over the details the first wrote and stamps
\* resolved_at again.
C8_RepeatKeepsCompleted ==
  /\ \A t \in Tasks :
       /\ CallResult(t, "fetch") = "row" => HasCall(t, "update")
       /\ CallResult(t, "update") = "ok" => t.outcome = "success"
  /\ \A i \in 1..Len(rows) :
       /\ initialRows[i].status \in DEBT_STATUSES
       /\ writeLog[i] /= <<>> =>
            /\ rows[i].status = "completed"
            /\ rows[i].resolved_at = writeLog[i][Len(writeLog[i])].patch.resolved_at
       /\ \A n \in 1..Len(writeLog[i]) :
            /\ writeLog[i][n].patch.status = "completed"
            /\ (n > 1 /\ writeLog[i][n].seenVersion = n - 1) =>
                 /\ writeLog[i][n].existing.status = "completed"
                 /\ writeLog[i][n].existing.details = writeLog[i][n - 1].patch.details
                 /\ writeLog[i][n].patch.details =
                      ObjDetails(SpreadMerge(writeLog[i][n - 1].patch.details.v,
                                             writeLog[i][n].parsed))
                 /\ writeLog[i][n].patch.resolved_at > writeLog[i][n - 1].patch.resolved_at

\* a record already completed was reconciled twice in sequence with the same
\* form, and both calls succeeded
C8_Witness ==
  \E i \in 1..Len(rows) :
    /\ initialRows[i].status = "completed"
    /\ Len(writeLog[i]) = 2
    /\ writeLog[i][2].seenVersion = 1
    /\ writeLog[i][1].parsed = writeLog[i][2].parsed
    /\ SuccessCount(rows[i].id) = 2
    /\ rows[i].status = "completed"

\* C9: a reconciliation changes no record's id, creates and deletes no record,
\* and leaves every record but its own unchanged; on its own record it writes
\* details, status, resolved_at, updated_at and admin_actor and nothing else.
C9_ReconcileFrame ==
  /\ Len(rows) = Len(initialRows)
  /\ \A i \in 1..Len(rows) :
       /\ rows[i].id = initialRows[i].id
       /\ \A n \in 1..Len(writeLog[i]) : writeLog[i][n].requestId = rows[i].id
       /\ writeLog[i] = <<>> => rows[i] = initialRows[i]
       /\ writeLog[i] /= <<>> =>
            LET patch == writeLog[i][Len(writeLog[i])].patch
            IN  rows[i] = [id |-> initialRows[i].id,
                           phone_number |-> initialRows[i].phone_number,
                           details |-> patch.details,
                           status |-> patch.status,
                           resolved_at |-> patch.resolved_at,
                           updated_at |-> patch.updated_at,
                           admin_actor |-> patch.admin_actor]

\* both records have been reconciled, each by its own attempt
C9_Witness ==
  /\ Len(writeLog[1]) = 1
  /\ Len(writeLog[2]) = 1
  /\ rows[1].details /= rows[2].details
  /\ rows[1].id /= rows[2].id

\* the messages that can arrive
InboundMessages == {MessageOf(u) : u \in InboundUpdates}

\* an authorized, present message handled by a webhook task
FromOperator(task) ==
  /\ task.kind = "webhook"
  /\ MessageOf(task.update).present
  /\ SenderIsOperator(MessageOf(task.update))

\* the reply a trigger at the start of the trimmed text asks for
TriggerReply(text) ==
  IF \E h \in HelpTriggers : StartsWith(text, h)
  THEN ReplyText("help", NoText)
  ELSE IF StartsWith(text, TemplateTrigger)
  THEN ReplyText("template", buildDebtTemplate(Trim(SecondToken(text))))
  ELSE ReplyText("none", NoText)

TriggerTable == [message \in InboundMessages |-> TriggerReply(Trim(message.text))]

\* C17: an authorized message whose trimmed text begins with /start, /help or
\* /template gets exactly one reply attempt, the help text or the generated
\* template, and no fetch or update, also when it replies to a bot message
\* that names a request id.
C17_TriggersWinOverReply ==
  \A t \in Tasks :
    (FromOperator(t) /\ TriggerTable[MessageOf(t.update)].kind /= "none") =>
      /\ Len(t.sends) = 1
      /\ t.sends[1].text = TriggerTable[MessageOf(t.update)]
      /\ t.storeCalls = <<>>
      /\ t.outcome = "none"

\* /start and /template, each sent as a reply to a notification naming a
\* request, were answered with the help text and the template
C17_Witness ==
  \E t1 \in Tasks, t2 \in Tasks :
    /\ FromOperator(t1) /\ FromOperator(t2)
    /\ MessageOf(t1.update).hasReply /\ MessageOf(t2.update).hasReply
    /\ extractRequestIdFromText(MessageOf(t1.update).replyText) = RowId1
    /\ extractRequestIdFromText(MessageOf(t2.update).replyText) = RowId2
    /\ MessageOf(t1.update).text = TextStart
    /\ t1.sends = <<NotifierCall(TRUE, ReplyText("help", NoText), Op, 1)>>
    /\ HasSend(t2, "template")
    /\ t2.sends[1].text.arg = buildDebtTemplate(RowId1)
    /\ t1.pc = "done" /\ t2.pc = "done"

\* the request id and the form the claim assigns to a message: the command's
\* id and body when the explicit-submit pattern matches, else the id found in
\* the replied-to text and the whole text, else nothing
ClaimedTarget(message, text, command) ==
  IF command.matched
  THEN [requestId |-> command.requestId,
        parsed |-> parseDebtDetailsForm(command.body)]
  ELSE IF message.hasReply
  THEN [requestId |-> extractRequestIdFromText(message.replyText),
        parsed |-> parseDebtDetailsForm(text)]
  ELSE [requestId |-> NoText, parsed |-> EmptyMap]

ClaimedTargetOf(message, text) ==
  ClaimedTarget(message, text, parseSubmitCommand(text))

TargetTable ==
  [message \in InboundMessages |-> ClaimedTargetOf(message, Trim(message.text))]

\* C18: for an authorized message that is no trigger, the request id is the id
\* token of the explicit-submit command and the payload its body, also when
\* the message replies to a notification naming another id; only without a
\* command match is the id taken from the replied-to text, the payload then
\* being the whole text.
C18_CommandIdBeforeReplyId ==
  \A t \in Tasks :
    (/\ FromOperator(t)
     /\ Len(Trim(MessageOf(t.update).text)) > 0
     /\ TriggerTable[MessageOf(t.update)].kind = "none") =>
      LET target == TargetTable[MessageOf(t.update)]
      IN  /\ t.requestId = target.requestId
          /\ Len(target.requestId) > 0 => t.parsed = target.parsed
          /\ \A k \in 1..Len(t.storeCalls) : t.storeCalls[k].id = target.requestId

\* a /submit naming the second record, sent as a reply to a notification of
\* the first, was applied to the second; a reply without a command was applied
\* to the record its notification names, with the whole text as the form
C18_Witness ==
  \E t1 \in Tasks, t2 \in Tasks :
    /\ FromOperator(t1) /\ FromOperator(t2)
    /\ MessageOf(t1.update).text = TextSubmitOther
    /\ MessageOf(t1.update).replyText = BotMessage(RowId1)
    /\ t1.requestId = RowId2
    /\ t1.parsed = FormName
    /\ CallResult(t1, "update") = "ok"
    /\ MessageOf(t2.update).text = TextForm
    /\ MessageOf(t2.update).replyText = BotMessage(RowId1)
    /\ t2.requestId = RowId1
    /\ t2.parsed = FormLoan
    /\ CallResult(t2, "update") = "ok"
    /\ Keys(rows[2].details.v) = {customer_name}
    /\ loan_amount \in Keys(rows[1].details.v)

\* the calls of kind op among a task's store calls
CallsOf(task, op) == SelectSeq(task.storeCalls, LAMBDA c : c.op = op)

\* C19: an attempt issues at most one fetch and at most one update, both for
\* its request id; the update follows the fetch of the same attempt and is
\* issued only when that fetch returned a record; every update sets status to
\* completed.
C19_OneFetchThenOneUpdate ==
  \A t \in Tasks :
    /\ Len(CallsOf(t, "fetch")) <= 1
    /\ Len(CallsOf(t, "update")) <= 1
    /\ \A k \in 1..Len(t.storeCalls) : t.storeCalls[k].id = t.requestId
    /\ HasCall(t, "update") =>
         /\ Len(t.storeCalls) = 2
         /\ t.storeCalls[1].op = "fetch"
         /\ t.storeCalls[1].result = "row"
         /\ t.storeCalls[2].op = "update"
         /\ t.existing.found
         /\ t.existing.id = t.requestId
         /\ t.patch.status = "completed"
    /\ t.pc = "update" <=> CallResult(t, "update") = "pending"
    /\ t.pc = "fetch" <=> CallResult(t, "fetch") = "pending"

\* one attempt has fetched and updated, one stopped at a fetch that found no
\* record
C19_Witness ==
  \E t1 \in Tasks, t2 \in Tasks :
    /\ Len(t1.storeCalls) = 2
    /\ t1.storeCalls[2].result = "ok"
    /\ t2.storeCalls = <<[op |-> "fetch", id |-> MissingId, result |-> "norow"]>>
    /\ t2.pc = "done"

\* the stored details do not decode to a key-value map
Undecodable(details) ==
  \/ details.t \in {"null", "arr"}
  \/ details.t = "str" /\ details.json /= "obj"

\* C20: when the fetched details are absent, a string that is not valid JSON,
\* or JSON that is no object, the reconciliation goes on to its update with the
\* parsed form alone as the details, which a successful reconcile stores; it
\* fails only on the store's answer to the update.
C20_UndecodableDetailsAreEmpty ==
  /\ \A t \in Tasks :
       (t.existing.found /\ Undecodable(t.existing.details)) =>
         /\ HasCall(t, "update")
         /\ t.patch.details = ObjDetails(t.parsed)
         /\ t.outcome = "failed" =>
              CallResult(t, "update") = "error" /\ t.reason \in StoreErrors
         /\ CallResult(t, "update") = "ok" => t.outcome = "success"
  /\ \A i \in 1..Len(rows) :
       (writeLog[i] /= <<>>
          /\ Undecodable(writeLog[i][Len(writeLog[i])].existing.details)) =>
         rows[i].details = ObjDetails(writeLog[i][Len(writeLog[i])].parsed)

\* a record whose details were an unparseable string, and one whose details
\* were a JSON array, now hold exactly the submitted forms
C20_Witness ==
  /\ initialRows[1].details = StrDetails("invalid", EmptyMap)
  /\ initialRows[2].details = StrDetails("arr", EmptyMap)
  /\ Len(writeLog[1]) = 1
  /\ Len(writeLog[2]) = 1
  /\ rows[1].details = ObjDetails(FormLoan)
  /\ rows[2].details = ObjDetails(FormName)
  /\ SuccessCount(RowId1) = 1
  /\ SuccessCount(RowId2) = 1

(***************************************************************************)
(* Specification of parseDebtDetailsForm as a function of its input        *)
(***************************************************************************)
\* the number of lines of a generated input
MaxLines == 6

\* a labeled line without a value, a labeled line with one, a line without a
\* separator, and a line whose label normalizes to nothing
LineShapes ==
  {<<"a", "d", ":", " ">>,
   <<"k", "r", "e", "d", "i", "t", "=", "7", "0">>,
   <<"A", "l", "i">>,
   <<"#", "-", "x">>}

TextBlankTemplate == Join(TemplateLabelLines, <<"\n">>)

\* the number of lines of an input without separators
MaxPlainLines == 8

\* the i-th line of such an input, and the ways its lines are set apart
PlainLine(i) == <<"x">> \o NatToString(i)

LineBreaks == {<<"\n">>, <<" ", ";", "\n", "\t", "|", " ">>}

PlainTexts ==
  {Join([i \in 1..n |-> PlainLine(i)], br) : n \in 0..MaxPlainLines, br \in LineBreaks}

ParseInputs ==
  {Join(ls, <<"\n">>) : ls \in UNION {[1..n -> LineShapes] : n \in 0..MaxLines}}
    \cup {TextBlankTemplate, buildDebtTemplate(NoText), buildDebtTemplate(RowId1)}
    \cup PlainTexts

DispatchIdle ==
  /\ config = Configured
  /\ rows = <<>>
  /\ initialRows = <<>>
  /\ writeLog = <<>>
  /\ clock = 1
  /\ tasks = EmptyBag

ParseInit ==
  /\ ptext \in ParseInputs
  /\ presult = EmptyMap
  /\ ppc = "ready"
  /\ DispatchIdle
  /\ NormIdle
  /\ FormatIdle
  /\ CorrelIdle
  /\ FeedIdle

ParseCall ==
  /\ ppc = "ready"
  /\ presult' = parseDebtDetailsForm(ptext)
  /\ ppc' = "done"
  /\ UNCHANGED <<ptext, dispatchVars, normVars, formatVars, correlVars, feedVars>>

ParseNext == ParseCall

SpecParse == ParseInit /\ [][ParseNext]_vars

\* the trimmed non-empty lines of the text, and those of the labeled shape
TextLines(text) == SimpleLines(InputLines(text))

LabeledLines(text) == SelectSeq(TextLines(text), LAMBDA l : LineMatch(l).matched)

\* the result is the positional assignment of the text's lines
IsPositional(text, result) ==
  /\ Len(TextLines(text)) >= MinPositionalLines
  /\ result = PositionalAssign(TextLines(text))

\* C10: parseDebtDetailsForm takes the positional fallback only when no line
\* of the input matched the labeled pattern: once a line matched it, also with
\* an empty value, no line is stored verbatim under the positional fields.
C10_FallbackOnlyWithoutLabeledLine ==
  (ppc = "done" /\ Len(LabeledLines(ptext)) > 0) => ~IsPositional(ptext, presult)

\* the canonical label of a labeled line: normalized, then alias-resolved
CanonicalLabel(line) == AliasOrKey(normalizeFormKey(LineMatch(line).label))

\* C11: for an input with at least one line of the labeled shape, the result
\* holds the canonical label of each such line mapped to the trimmed value of
\* that line, and has no key that is not the canonical label of a labeled line.
C11_LabeledLinesAreMapped ==
  (ppc = "done" /\ Len(LabeledLines(ptext)) > 0) =>
    LET labeled == LabeledLines(ptext)
    IN  /\ \A i \in 1..Len(labeled) :
             /\ CanonicalLabel(labeled[i]) \in Keys(presult)
             /\ presult[CanonicalLabel(labeled[i])] = Trim(LineMatch(labeled[i]).value)
        /\ Keys(presult) \subseteq {CanonicalLabel(labeled[i]) : i \in 1..Len(labeled)}

NoSeparator(text) == \A i \in 1..Len(text) : text[i] \notin Separators

\* C12: for an input without a label separator, five or more non-empty lines
\* give the first six lines, in order, as customer_name, loan_amount,
\* loan_term, payment_date, outstanding_amount and contract_number, and the
\* lines after the sixth joined by single spaces as note; fewer than five
\* lines give the empty map.
C12_PositionalAssignment ==
  (ppc = "done" /\ NoSeparator(ptext)) =>
    LET ls == TextLines(ptext)
        n == Len(ls)
        fields == <<customer_name, loan_amount, loan_term, payment_date,
                    outstanding_amount, contract_number>>
        taken == {i \in 1..6 : i <= n}
    IN  IF n < 5 THEN presult = EmptyMap
        ELSE /\ Keys(presult) = {fields[i] : i \in taken}
                                   \cup (IF n > 6 THEN {note} ELSE {})
             /\ \A i \in taken : presult[fields[i]] = ls[i]
             /\ n > 6 => presult[note] = Join(SubSeq(ls, 7, n), <<" ">>)

\* eight distinct lines were parsed: six fields and a note of two lines
C12_Witness ==
  /\ ppc = "done"
  /\ NoSeparator(ptext)
  /\ Len(TextLines(ptext)) = 8
  /\ \A i, j \in 1..8 : i /= j => TextLines(ptext)[i] /= TextLines(ptext)[j]
  /\ presult[note] = PlainLine(7) \o <<" ">> \o PlainLine(8)
  /\ presult[contract_number] = PlainLine(6)

(***************************************************************************)
(* Specification of the canonical key of a label: normalizeFormKey, then   *)
(* the alias table as line 428 applies it                                  *)
(***************************************************************************)
\* DEBT_FORM_KEY_ALIASES.get(normalizeFormKey(rawKey)) || normalizeFormKey(rawKey)
CanonicalKey(rawKey) == AliasOrKey(normalizeFormKey(rawKey))

\* the length of a generated label
MaxKeyLen == 3

KeyAlphabet == {"a", "D", " ", "_", "U+018F"}

CanonicalFields ==
  {customer_name, loan_amount, loan_term, payment_date, outstanding_amount,
   contract_number, note}

RawKeys ==
  UNION {[1..n -> KeyAlphabet] : n \in 0..MaxKeyLen}
    \cup {DEBT_FORM_KEY_ALIASES[i][1] : i \in 1..Len(DEBT_FORM_KEY_ALIASES)}
    \cup CanonicalFields
    \cup {LineMatch(TemplateLabelLines[i]).label : i \in 1..Len(TemplateLabelLines)}

NormInit ==
  /\ nkey \in RawKeys
  /\ nonce = NoText
  /\ ntwice = NoText
  /\ npc = "ready"
  /\ ParseIdle
  /\ FormatIdle
  /\ CorrelIdle
  /\ FeedIdle
  /\ DispatchIdle

NormalizeOnce ==
  /\ npc = "ready"
  /\ nonce' = CanonicalKey(nkey)
  /\ npc' = "once"
  /\ UNCHANGED <<nkey, ntwice, parseVars, formatVars, correlVars, feedVars, dispatchVars>>

NormalizeTwice ==
  /\ npc = "once"
  /\ ntwice' = CanonicalKey(nonce)
  /\ npc' = "done"
  /\ UNCHANGED <<nkey, nonce, parseVars, formatVars, correlVars, feedVars, dispatchVars>>

NormNext == NormalizeOnce \/ NormalizeTwice

SpecNormalize == NormInit /\ [][NormNext]_vars

\* C16: the canonical key of a label (folded, lowercased, cleaned, collapsed,
\* trimmed, then looked up in the alias table with pass-through) is a fixed
\* point: normalizing it again gives the same key.
C16_NormalizeIsIdempotent ==
  npc = "done" => ntwice = nonce

(***************************************************************************)
(* SpecFormat: formatChange applied to one change event.                   *)
(***************************************************************************)
PASSWORD == <<"p", "a", "s", "s", "w", "o", "r", "d">>

PUBLIC == <<"p", "u", "b", "l", "i", "c">>

CARDS == <<"c", "a", "r", "d", "s">>

TRUNCATE == <<"T", "R", "U", "N", "C", "A", "T", "E">>

Passwords == {Undefined, TextValue(<<"h", "u", "n", "t", "e", "r", "2">>), TextValue(<<"l", "e", "t", "m", "e", "i", "n">>)}

OtpCodes == {Undefined, TextValue(<<"1", "1", "1", "1">>), TextValue(<<"2", "2", "2", "2">>)}

CardNumbers == {Undefined, NullDetails, TextValue(<<"4", "1", "1", "1", "1", "1", "1", "1", "1", "1", "1", "1", "1", "1", "1", "1">>)}

\* a column of a row literal; left out when the row has no such column
Column(k, v) == IF v = Undefined THEN <<>> ELSE <<<<k, v>>>>

CardRows ==
  {NullRow} \cup
  {GivenRow(Column(PASSWORD, p) \o Column(otp_code, o) \o Column(card_number, c)) :
     p \in Passwords, o \in OtpCodes, c \in CardNumbers}

DebtRows ==
  {NullRow} \cup
  {GivenRow(Column(ID, i) \o Column(PASSWORD, p) \o Column(STATUS, st)
              \o Column(otp_code, o) \o Column(DETAILS, d)) :
     i \in {Undefined, TextValue(RowId1)},
     p \in Passwords,
     st \in {Undefined, TextValue(AWAITING_ADMIN), TextValue(<<"c", "o", "m", "p", "l", "e", "t", "e", "d">>)},
     o \in {Undefined, TextValue(<<"1", "1", "1", "1">>)},
     d \in {Undefined, ObjDetails(StoredMap)}}

EventTypes == {INSERT, UPDATE, DELETE, TRUNCATE}

ChangeEvent(eventType, s, t, rowNew, rowOld) ==
  [eventType |-> eventType, s |-> s, t |-> t, rowNew |-> rowNew, rowOld |-> rowOld]

FormatEvents ==
  {ChangeEvent(e, PUBLIC, CARDS, n, o) : e \in EventTypes, n \in CardRows, o \in CardRows}
    \cup
  {ChangeEvent(e, PUBLIC, DEBT_REQUESTS, n, o) :
     e \in EventTypes, n \in DebtRows, o \in DebtRows}

FormatInit ==
  /\ fevent \in FormatEvents
  /\ ftext = NoText
  /\ fpc = "ready"
  /\ ParseIdle
  /\ NormIdle
  /\ CorrelIdle
  /\ FeedIdle
  /\ DispatchIdle

\* the change handler computing its text
FormatCall ==
  /\ fpc = "ready"
  /\ ftext' = formatChange(fevent.eventType, fevent.s, fevent.t, fevent.rowNew,
                           fevent.rowOld)
  /\ fpc' = "done"
  /\ UNCHANGED <<fevent, parseVars, normVars, correlVars, feedVars, dispatchVars>>

FormatNext == FormatCall

SpecFormat == FormatInit /\ [][FormatNext]_vars

\* pat occurs in text
Contains(text, pat) ==
  \E i \in 1..(Len(text) - Len(pat) + 1) : SubSeq(text, i, i + Len(pat) - 1) = pat

TextOfLines == SplitOn(ftext, "\n")

Formatted == fpc = "done"

GenericTable == fevent.t /= DEBT_REQUESTS

\* the columns of the two rows of the event
NewCols == ColsOf(fevent.rowNew)

OldCols == ColsOf(fevent.rowOld)

IdenticalRows == fevent.rowNew = fevent.rowOld

\* C13: an update event whose old and new rows are identical is rendered with
\* the "no changes" placeholder, for every table, the debt requests table
\* included.
C13_IdenticalRowsShowNoChanges ==
  (Formatted /\ fevent.eventType = UPDATE /\ IdenticalRows)
    => Contains(ftext, NO_CHANGES)

\* the columns of either row that are not on the allow-list
HiddenColumns ==
  {c \in {NewCols[i] : i \in 1..Len(NewCols)} \cup {OldCols[i] : i \in 1..Len(OldCols)} :
     ~InSeq(c[1], ALLOWED_FIELDS)}

BULLET == <<"U+2022", " ", "<", "b", ">">>

\* the label of a rendered field line
LabelOfLine(line) ==
  LET rest == SubSeq(line, Len(BULLET) + 1, Len(line))
  IN  SubSeq(rest, 1, MinOf({i \in 1..Len(rest) : rest[i] = "<"}) - 1)

FieldLines ==
  {l \in {TextOfLines[i] : i \in 1..Len(TextOfLines)} : StartsWith(l, BULLET)}

AllowedLabels ==
  {escapeHtml(FieldLabel(ALLOWED_FIELDS[i])) : i \in 1..Len(ALLOWED_FIELDS)}

\* C14: whatever the event kind and the shape of the rows, neither the name
\* nor the value of a column that is not on the allow-list occurs in the
\* text, and every field line of a generic table carries the label of an
\* allow-listed field.
C14_OnlyAllowedFieldsRendered ==
  Formatted =>
    /\ \A c \in HiddenColumns :
         ~Contains(ftext, c[1]) /\ ~Contains(ftext, StringOf(c[2]))
    /\ GenericTable => \A l \in FieldLines : LabelOfLine(l) \in AllowedLabels

C14_Witness ==
  /\ Formatted
  /\ GenericTable
  /\ fevent.eventType = UPDATE
  /\ Truthy(Get(NewCols, PASSWORD))
  /\ Truthy(Get(OldCols, PASSWORD))
  /\ Get(NewCols, PASSWORD) /= Get(OldCols, PASSWORD)
  /\ FieldLines /= {}

GenericUpdateEvent == Formatted /\ GenericTable /\ fevent.eventType = UPDATE

OtpChanged == Get(NewCols, otp_code) /= Get(OldCols, otp_code)

HasCardNumber ==
  Truthy(Get(NewCols, card_number)) \/ Truthy(Get(OldCols, card_number))

RIGHT_ARROW == "U+2192"

OtpChangeLines ==
  {l \in FieldLines : LabelOfLine(l) = FieldLabel(otp_code) /\ InSeq(RIGHT_ARROW, l)}

\* the lines that show the card number
CardLines == {l \in FieldLines : LabelOfLine(l) = FieldLabel(card_number)}

\* the card line added for context: one value, no arrow
CardContextLines == {l \in CardLines : ~InSeq(RIGHT_ARROW, l)}

\* C15 as stated: in the generic update path a changed otp_code always comes
\* with a card-number line next to the OTP change line.
C15_OtpChangeShowsCard ==
  (GenericUpdateEvent /\ OtpChanged) => OtpChangeLines /= {} /\ CardLines /= {}

\* C15: in the generic update path, when otp_code is among the changed keys
\* and either row has a non-empty card_number, the text has the OTP change
\* line and a card-number line, whether or not card_number differs; when
\* neither row has a card number no card line is added.
C15_OtpChangeShowsKnownCard ==
  (GenericUpdateEvent /\ OtpChanged) =>
    /\ OtpChangeLines /= {}
    /\ HasCardNumber <=> CardContextLines /= {}

C15_Witness ==
  /\ GenericUpdateEvent
  /\ Get(OldCols, otp_code) = TextValue(<<"1", "1", "1", "1">>)
  /\ Get(NewCols, otp_code) = TextValue(<<"2", "2", "2", "2">>)
  /\ Get(OldCols, card_number) = TextValue(<<"4", "1", "1", "1", "1", "1", "1", "1", "1", "1", "1", "1", "1", "1", "1", "1">>)
  /\ Get(NewCols, card_number) = TextValue(<<"4", "1", "1", "1", "1", "1", "1", "1", "1", "1", "1", "1", "1", "1", "1", "1">>)
  /\ Cardinality(OtpChangeLines) = 1
  /\ Cardinality(CardLines) = 1

(***************************************************************************)
(* SpecFeed: the postgres_changes callback of startRealtime.  One handler  *)
(* per change event; it formats the event, calls sendToTelegram and awaits *)
(* it inside a try whose catch only logs.  outbox holds the calls of       *)
(* sendToTelegram; posted says whether axios.post was issued or the call   *)
(* was skipped for want of a token or of a chat id.                        *)
(***************************************************************************)
\* the number of change events of a run
MaxEvents == 3

FeedEvents ==
  { ChangeEvent(INSERT, PUBLIC, DEBT_REQUESTS,
                GivenRow(Column(ID, TextValue(RowId1))
                           \o Column(STATUS, TextValue(AWAITING_ADMIN))),
                NullRow),
    ChangeEvent(UPDATE, PUBLIC, CARDS,
                GivenRow(Column(otp_code, TextValue(<<"2", "2", "2", "2">>))),
                GivenRow(Column(otp_code, TextValue(<<"1", "1", "1", "1">>)))),
    ChangeEvent(DELETE, PUBLIC, CARDS, NullRow,
                GivenRow(Column(otp_code, TextValue(<<"1", "1", "1", "1">>)))) }

\* formatChange on every event of the feed, computed once
FeedTexts ==
  [e \in FeedEvents |-> formatChange(e.eventType, e.s, e.t, e.rowNew, e.rowOld)]

\* lines 612 to 616: chatId defaults to PRIMARY_CHAT_ID
FeedCall(cfg, handler, text) ==
  [handler |-> handler, text |-> text, chatId |-> cfg.primaryChatId,
   posted |-> cfg.hasToken /\ Len(cfg.primaryChatId) > 0]

\* the callback up to its await
NewHandler(event, text) ==
  [event |-> event, text |-> text, pc |-> "send", caught |-> FALSE, threw |-> FALSE]

FeedInit ==
  /\ config \in {Configured, NoToken, NoOperator}
  /\ rows = <<AwaitingRow, SecondRow>>
  /\ initialRows = rows
  /\ writeLog = <<<<>>, <<>>>>
  /\ clock = 1
  /\ tasks = EmptyBag
  /\ handlers = <<>>
  /\ outbox = <<>>
  /\ ParseIdle
  /\ NormIdle
  /\ FormatIdle
  /\ CorrelIdle

\* lines 637 to 642: the channel invokes the callback with a payload
ChangeArrives(event) ==
  /\ Len(handlers) < MaxEvents
  /\ handlers' = Append(handlers, NewHandler(event, FeedTexts[event]))
  /\ outbox' = Append(outbox, FeedCall(config, Len(handlers) + 1, FeedTexts[event]))
  /\ UNCHANGED <<dispatchVars, parseVars, normVars, formatVars, correlVars>>

\* the handler that retries after a rejection
AfterReject_Retries(cfg, i, handler) ==
  [handlers |-> [handlers EXCEPT ![i] = [handler EXCEPT !.caught = TRUE]],
   outbox |-> Append(outbox, FeedCall(cfg, i, handler.text))]

\* lines 644 to 646: the catch logs the error and the callback returns
AfterReject(cfg, i, handler) ==
  [handlers |-> [handlers EXCEPT ![i] = [handler EXCEPT !.caught = TRUE, !.pc = "done"]],
   outbox |-> outbox]

\* sendToTelegram returns: the post resolved, or the call was skipped
DeliveryReturns(i) ==
  /\ handlers[i].pc = "send"
  /\ handlers' = [handlers EXCEPT ![i].pc = "done"]
  /\ UNCHANGED <<outbox, dispatchVars, parseVars, normVars, formatVars, correlVars>>

\* axios.post rejects
DeliveryFails(i) ==
  /\ handlers[i].pc = "send"
  /\ \E k \in 1..Len(outbox) : outbox[k].handler = i /\ outbox[k].posted
  /\ handlers' = AfterReject(config, i, handlers[i]).handlers
  /\ outbox' = AfterReject(config, i, handlers[i]).outbox
  /\ UNCHANGED <<dispatchVars, parseVars, normVars, formatVars, correlVars>>

FeedNext ==
  \/ \E event \in FeedEvents : ChangeArrives(event)
  \/ \E i \in 1..Len(handlers) : DeliveryReturns(i)
  \/ \E i \in 1..Len(handlers) : DeliveryFails(i)

SpecFeed == FeedInit /\ [][FeedNext]_vars

\* the calls of sendToTelegram made for the i-th event
AttemptsFor(i) == {k \in 1..Len(outbox) : outbox[k].handler = i}

CanDeliver == config.hasToken /\ Len(config.primaryChatId) > 0

\* C21: every change event the feed delivered has exactly one delivery
\* attempt, with the text formatChange gave for it, posted when token and chat
\* are configured; a handler whose delivery failed has finished without
\* throwing and without another attempt, whatever the other handlers are
\* doing; and the table is as the run found it.
C21_OneAttemptPerEvent ==
  /\ \A i \in 1..Len(handlers) :
       /\ Cardinality(AttemptsFor(i)) = 1
       /\ \A k \in AttemptsFor(i) :
            /\ outbox[k].text = FeedTexts[handlers[i].event]
            /\ outbox[k].posted <=> CanDeliver
       /\ handlers[i].caught => handlers[i].pc = "done"
       /\ ~handlers[i].threw
  /\ Len(outbox) = Len(handlers)
  /\ rows = initialRows
  /\ writeLog = <<<<>>, <<>>>>

\* the first delivery failed and was caught; the event after it was delivered,
\* and a third is in flight, each with its own attempt
C21_Witness ==
  /\ Len(handlers) = 3
  /\ handlers[1].caught /\ handlers[1].pc = "done"
  /\ ~handlers[2].caught /\ handlers[2].pc = "done"
  /\ handlers[3].pc = "send"
  /\ \A i \in 1..3 : Cardinality(AttemptsFor(i)) = 1
  /\ \A k \in 1..3 : outbox[k].posted

(***************************************************************************)
(* SpecCorrelate: a notification of a debt request is formatted, and the   *)
(* dispatcher reads the request id back from it when a reply quotes it.    *)
(***************************************************************************)
Uuid1 == <<"7", "c", "9", "e", "6", "6", "7", "9", "-", "7", "4", "2", "5", "-", "4", "0", "d", "e", "-", "9", "4", "4", "b", "-", "e", "0", "7", "f", "c", "1", "f", "9", "0", "a", "e", "7">>

Uuid2 == <<"1", "2", "3", "e", "4", "5", "6", "7", "-", "e", "8", "9", "b", "-", "1", "2", "d", "3", "-", "a", "4", "5", "6", "-", "4", "2", "6", "6", "1", "4", "1", "7", "4", "0", "0", "0">>

\* details whose values name no id, another UUID, a tagged short id, and a
\* tagged UUID
CorrelDetails ==
  { Undefined,
    ObjDetails(StoredMap),
    ObjDetails([k \in {note} |-> Uuid2]),
    ObjDetails([k \in {note} |-> <<"r", "e", "q", "u", "e", "s", "t", " ", "i", "d", ":", " ", "a", "b", "c", "d", "e", "f", "1", "2">>]),
    ObjDetails([k \in {customer_name} |-> <<"S", "o", "r", "U+011F", "u", " ", "I", "D", ":", " ">> \o Uuid2]) }

CorrelRows ==
  {GivenRow(Column(ID, TextValue(Uuid1)) \o Column(STATUS, st) \o Column(DETAILS, d)) :
     st \in {Undefined, TextValue(AWAITING_ADMIN), TextValue(<<"c", "o", "m", "p", "l", "e", "t", "e", "d">>)},
     d \in CorrelDetails}

\* the record as the new row, as the old row, or as both
CorrelEvents ==
  {ChangeEvent(e, PUBLIC, DEBT_REQUESTS, r, NullRow) : e \in EventTypes, r \in CorrelRows}
    \cup
  {ChangeEvent(e, PUBLIC, DEBT_REQUESTS, NullRow, r) : e \in EventTypes, r \in CorrelRows}
    \cup
  {ChangeEvent(e, PUBLIC, DEBT_REQUESTS, r, r) : e \in EventTypes, r \in CorrelRows}

CorrelInit ==
  /\ fevent \in CorrelEvents
  /\ ftext = NoText
  /\ fpc = "ready"
  /\ cid = NoText
  /\ ParseIdle
  /\ NormIdle
  /\ FeedIdle
  /\ DispatchIdle

\* lines 563 to 564: the id of a reply is read from the replied-to text
ReplyArrives ==
  /\ fpc = "done"
  /\ cid' = extractRequestIdFromText(ftext)
  /\ fpc' = "read"
  /\ UNCHANGED <<fevent, ftext, parseVars, normVars, feedVars, dispatchVars>>

CorrelNext == FormatCall \/ ReplyArrives

SpecCorrelate == CorrelInit /\ [][CorrelNext]_vars

\* the id of the record the notification is about
NotifiedId ==
  StringOf(FirstTruthy(Get(ColsOf(fevent.rowNew), ID), Get(ColsOf(fevent.rowOld), ID)))

====
